---------------------------- MODULE Spec2Model ----------------------------
(***************************************************************************)
(* Model of the concurrent piece-download scheduler of src/main.cpp: the   *)
(* PieceWorkQueue and its three operations, download_worker, and the       *)
(* `download` branch of main that spawns the workers, joins them and       *)
(* writes the output file.                                                 *)
(*                                                                         *)
(* Socket traffic is local to one worker; a step of a worker is one call   *)
(* on its socket together with the purely local computation that follows   *)
(* it, up to the next access to shared state (the queue, the output        *)
(* buffer, last_error).  What a peer sends is a nondeterministic input.    *)
(***************************************************************************)
EXTENDS Integers, Sequences, FiniteSets, TLC

(***************************************************************************)
(* Bounds of the model.                                                    *)
(***************************************************************************)
\* number of peers returned by the tracker (peers.size())
NumPeers == 2
\* info["piece length"] and info["length"], in bytes
PieceLength == 2
TotalLength == 5
\* number of cells of the queue driven by the queue harness (QueueSpec)
QueuePieces == 9

(***************************************************************************)
(* Program constants.                                                      *)
(***************************************************************************)
max_workers == 4
PENDING == 0
IN_PROGRESS == 1
DONE == 2
INVALID_SOCKET == -1

(***************************************************************************)
(* The torrent: file content, pieces and their digests.                    *)
(***************************************************************************)
Byte == 0 .. 1

Min(a, b) == IF a < b THEN a ELSE b

\* ceil(total_length / piece_length): the number of 20-byte digests in
\* pieces_blob
NumPieces == (TotalLength + PieceLength - 1) \div PieceLength

Pieces == 0 .. NumPieces - 1
Workers == 0 .. NumPeers - 1

RECURSIVE SumSeq(_)
SumSeq(s) == IF s = << >> THEN 0 ELSE Head(s) + SumSeq(Tail(s))

\* SHA1::hash, abstracted to a digest over a small domain.  It is not
\* injective: two different pieces can have the same digest.
Digest(data) == (SumSeq(data) + Len(data)) % 2

\* the content the torrent describes (bytes 0 .. TotalLength-1)
FileData == [k \in 1 .. TotalLength |-> (k - 1) % 2]

piece_offset(i) == i * PieceLength
piece_size(i) == Min(PieceLength, TotalLength - piece_offset(i))

\* bytes [off, off+size) of a buffer (buffers are 1-indexed sequences)
Slice(buf, off, size) == [k \in 1 .. size |-> buf[off + k]]

\* pieces_blob: digest i is the digest of piece i of the file
pieces_blob == [i \in Pieces |-> Digest(Slice(FileData, piece_offset(i), piece_size(i)))]

expected_piece_hash(i) == pieces_blob[i]

\* every byte string of a given length a peer can deliver as a piece
PieceDatas(size) == [1 .. size -> Byte]

(***************************************************************************)
(* Bitfields are byte strings, most significant bit first.                 *)
(***************************************************************************)
bitfield_has_piece(bitfield, piece_index) ==
    IF piece_index < 0 THEN FALSE
    ELSE LET byte_index == piece_index \div 8
             bit_in_byte == 7 - (piece_index % 8)
         IN  IF byte_index >= Len(bitfield) THEN FALSE
             ELSE ((bitfield[byte_index + 1] \div (2 ^ bit_in_byte)) % 2) # 0

\* bitfield payloads a peer sends in the download model
PeerBitfields == { << >>, <<192>>, <<32>>, <<224>> }

\* bitfield payloads the queue harness passes to acquire_next_piece
QueueBitfields == { << >>, <<0>>, <<128>>, <<65>>, <<255>>, <<0, 128>>, <<1, 128>> }

(***************************************************************************)
(* PieceWorkQueue and its operations.  A queue is a record of the cell     *)
(* array `state` (indexed from 0) and the counter `remaining`.             *)
(***************************************************************************)
PieceWorkQueue(num_pieces) ==
    [state |-> [i \in 0 .. num_pieces - 1 |-> PENDING], remaining |-> num_pieces]

QueueSize(q) == Cardinality(DOMAIN q.state)

\* the for loop of acquire_next_piece, from index i on: the first index
\* that is pending and passes the bitfield test, or -1
RECURSIVE ScanFrom(_, _, _, _)
ScanFrom(q, bitfield, i, num_pieces) ==
    IF i >= num_pieces THEN -1
    ELSE IF q.state[i] # PENDING THEN ScanFrom(q, bitfield, i + 1, num_pieces)
    ELSE IF bitfield # << >> /\ ~bitfield_has_piece(bitfield, i)
         THEN ScanFrom(q, bitfield, i + 1, num_pieces)
    ELSE i

\* acquire_next_piece without marking the cell it returns
acquire_no_mark(q, bitfield, num_pieces) ==
    IF q.remaining <= 0 THEN [q |-> q, ret |-> -1]
    ELSE [q |-> q, ret |-> ScanFrom(q, bitfield, 0, num_pieces)]

\* returns the queue after the call and the returned index
acquire_next_piece(q, bitfield, num_pieces) ==
    IF q.remaining <= 0 THEN [q |-> q, ret |-> -1]
    ELSE LET i == ScanFrom(q, bitfield, 0, num_pieces)
         IN  IF i < 0 THEN [q |-> q, ret |-> -1]
             ELSE [q |-> [q EXCEPT !.state[i] = IN_PROGRESS], ret |-> i]

\* mark_piece_done without the test of the cell's state
mark_done_unchecked(q, piece_index) ==
    IF piece_index < 0 THEN q
    ELSE IF piece_index >= QueueSize(q) THEN q
    ELSE [state |-> [q.state EXCEPT ![piece_index] = DONE],
          remaining |-> q.remaining - 1]

mark_piece_done(q, piece_index) ==
    IF piece_index < 0 THEN q
    ELSE IF piece_index >= QueueSize(q) THEN q
    ELSE IF q.state[piece_index] = IN_PROGRESS
         THEN [state |-> [q.state EXCEPT ![piece_index] = DONE],
               remaining |-> q.remaining - 1]
         ELSE q

\* mark_piece_retry that leaves the cell as it is
mark_retry_noop(q, piece_index) == q

\* mark_piece_retry without the test of the cell's state
mark_retry_unchecked(q, piece_index) ==
    IF piece_index < 0 THEN q
    ELSE IF piece_index >= QueueSize(q) THEN q
    ELSE [q EXCEPT !.state[piece_index] = PENDING]

\* mark_piece_retry that completes the cell instead of releasing it
mark_retry_as_done(q, piece_index) ==
    IF piece_index < 0 THEN q
    ELSE IF piece_index >= QueueSize(q) THEN q
    ELSE IF q.state[piece_index] = IN_PROGRESS
         THEN [state |-> [q.state EXCEPT ![piece_index] = DONE],
               remaining |-> q.remaining - 1]
         ELSE q

\* mark_piece_retry that gives the cell back to the counter
mark_retry_counts(q, piece_index) ==
    IF piece_index < 0 THEN q
    ELSE IF piece_index >= QueueSize(q) THEN q
    ELSE IF q.state[piece_index] = IN_PROGRESS
         THEN [state |-> [q.state EXCEPT ![piece_index] = PENDING],
               remaining |-> q.remaining + 1]
         ELSE q

mark_piece_retry(q, piece_index) ==
    IF piece_index < 0 THEN q
    ELSE IF piece_index >= QueueSize(q) THEN q
    ELSE IF q.state[piece_index] = IN_PROGRESS
         THEN [q EXCEPT !.state[piece_index] = PENDING]
         ELSE q

(***************************************************************************)
(* State.                                                                  *)
(***************************************************************************)
VARIABLES
    queue,          \* PieceWorkQueue queue
    file_data,      \* std::vector<char> file_data, the shared output buffer
    wpc,            \* position of each worker thread
    sock,           \* download_worker: SOCKET sock
    current_piece,  \* download_worker: int current_piece
    bitfield,       \* download_worker: the bitfield payload of its peer
    piece_data,     \* download_worker: the piece assembled from the peer
    werr,           \* the exception a worker rethrows to its thread lambda
    mpc,            \* position of the main thread
    next_peer,      \* main: size_t next_peer
    batch,          \* main: size_t batch
    last_error,     \* main: std::string last_error
    main_error,     \* what() of the exception that ends main
    out_file,       \* the output file: status and bytes
    observed,       \* history: what() of the worker error caught last
    writes,         \* history: number of memcpy calls into each piece's range
    closes,         \* history: number of closesocket calls of each worker
    q_ret,          \* queue harness: value returned by the last acquire
    frame,          \* wire framer: bytes in flight and the result of a receive
    blk,            \* download_piece_from_peer: locals and the requests sent
    hs,             \* perform_handshake: response, result, messages sent after
    magnet,         \* main (magnet_info): metadata, info_hash, output
    benc,           \* Bencode codec: input and results of decode and encode
    sha,            \* SHA1: the object's fields and the input still to be fed
    cmd,            \* main (download_piece, magnet_handshake): locals, output
    sess            \* one peer session of a worker, message by message

\* the state of the components that are exercised on their own
auxVars == << frame, blk, hs, magnet, benc, sha, cmd, sess >>

componentVars == << frame, blk, hs, magnet, benc >>

\* the state of the download command
downloadVars == << queue, file_data, wpc, sock, current_piece, bitfield, piece_data,
                   werr, mpc, next_peer, batch, last_error, main_error, out_file,
                   observed, writes, closes, q_ret >>

vars == << queue, file_data, wpc, sock, current_piece, bitfield, piece_data,
           werr, mpc, next_peer, batch, last_error, main_error, out_file,
           observed, writes, closes, q_ret, frame, blk, hs, magnet, benc,
           sha, cmd, sess >>

workerVars == << wpc, sock, current_piece, bitfield, piece_data, werr, closes >>
mainVars == << mpc, next_peer, batch, main_error, out_file >>

NoError == ""

\* the components exercised on their own, before their first step
FrameIdle == [pc |-> "idle"]
BlockIdle == [pc |-> "idle"]
HandshakeIdle == [pc |-> "idle"]
MagnetIdle == [pc |-> "idle"]
BencodeIdle == [pc |-> "idle"]
SHA1Idle == [pc |-> "idle"]
CommandIdle == [pc |-> "idle"]
SessionIdle == [pc |-> "idle"]

\* state of the download command after construction of the queue
\* (PieceWorkQueue queue(num_pieces); no thread started yet)
DownloadInit(q) ==
    /\ queue = q
    /\ file_data = [k \in 1 .. TotalLength |-> 0]
    /\ wpc = [w \in Workers |-> "idle"]
    /\ sock = [w \in Workers |-> INVALID_SOCKET]
    /\ current_piece = [w \in Workers |-> -1]
    /\ bitfield = [w \in Workers |-> << >>]
    /\ piece_data = [w \in Workers |-> << >>]
    /\ werr = [w \in Workers |-> NoError]
    /\ mpc = "loop"
    /\ next_peer = 0
    /\ batch = 0
    /\ last_error = NoError
    /\ main_error = NoError
    /\ out_file = [status |-> "absent", bytes |-> << >>]
    /\ observed = NoError
    /\ writes = [i \in Pieces |-> 0]
    /\ closes = [w \in Workers |-> 0]
    /\ q_ret = -1
    /\ frame = FrameIdle
    /\ blk = BlockIdle
    /\ hs = HandshakeIdle
    /\ magnet = MagnetIdle
    /\ benc = BencodeIdle
    /\ sha = SHA1Idle
    /\ cmd = CommandIdle
    /\ sess = SessionIdle

Init == DownloadInit(PieceWorkQueue(NumPieces))

(***************************************************************************)
(* download_worker.                                                        *)
(***************************************************************************)
\* what() of the exceptions the calls made at each position can throw
ErrorsAt(pc) ==
    CASE pc = "connect"    -> { "Failed to connect to peer" }
      [] pc = "handshake"  -> { "Invalid handshake response", "Peer closed connection" }
      [] pc = "bitfield"   -> { "Peer closed connection" }
      [] pc = "interested" -> { "Failed to send data" }
      [] pc = "unchoke"    -> { "Peer closed connection" }
      [] pc = "fetch"      -> { "Peer closed connection", "Unexpected block length" }
      [] OTHER             -> { }

\* the comparison of SHA1::hash(piece_data) with the expected digest that
\* accepts every piece
hash_always_matches(data, i) == TRUE

\* actual_hash == expected_piece_hash
hash_matches(data, i) == Digest(data) = expected_piece_hash(i)

\* std::memcpy(out_buf->data() + piece_offset, piece_data.data(), piece_size)
\* at an offset one byte too far
memcpy_shifted(buf, off, data, size) ==
    [k \in 1 .. Len(buf) |->
        IF k - 1 >= off + 1 /\ k - 1 < off + 1 + size THEN data[k - off - 1] ELSE buf[k]]

\* std::memcpy(out_buf->data() + piece_offset, piece_data.data(), piece_size)
memcpy(buf, off, data, size) ==
    [k \in 1 .. Len(buf) |->
        IF k - 1 >= off /\ k - 1 < off + size THEN data[k - off] ELSE buf[k]]

\* the catch (...) block of download_worker followed by the rethrow: the
\* piece in progress is released, the socket is closed if it was opened,
\* and the exception reaches the lambda of the thread
Catch(w, err) ==
    /\ queue' = IF current_piece[w] >= 0
                THEN mark_piece_retry(queue, current_piece[w]) ELSE queue
    /\ closes' = IF sock[w] # INVALID_SOCKET
                 THEN [closes EXCEPT ![w] = @ + 1] ELSE closes
    /\ current_piece' = [current_piece EXCEPT ![w] = -1]
    /\ piece_data' = [piece_data EXCEPT ![w] = << >>]
    /\ werr' = [werr EXCEPT ![w] = err]
    /\ wpc' = [wpc EXCEPT ![w] = "report"]
    /\ UNCHANGED << sock, bitfield >>

\* closesocket(sock); sock = INVALID_SOCKET; and the return of the worker
CloseAndReturn(w) ==
    /\ closes' = [closes EXCEPT ![w] = @ + 1]
    /\ sock' = [sock EXCEPT ![w] = INVALID_SOCKET]
    /\ wpc' = [wpc EXCEPT ![w] = "exited"]

\* sock = tcp_connect(peer_host, peer_port)
Connect(w) ==
    /\ wpc[w] = "connect"
    /\ sock' = [sock EXCEPT ![w] = 1]
    /\ wpc' = [wpc EXCEPT ![w] = "handshake"]
    /\ UNCHANGED << queue, file_data, current_piece, bitfield, piece_data, werr,
                    closes, mainVars, last_error, observed, writes, q_ret, auxVars >>

\* tcp_connect throws: no socket is returned
ConnectFail(w) ==
    /\ wpc[w] = "connect"
    /\ \E e \in ErrorsAt("connect") : Catch(w, e)
    /\ UNCHANGED << file_data, mainVars, last_error, observed, writes, q_ret, auxVars >>

\* perform_handshake(sock, info_hash, my_peer_id) returns
Handshake(w) ==
    /\ wpc[w] = "handshake"
    /\ wpc' = [wpc EXCEPT ![w] = "bitfield"]
    /\ UNCHANGED << queue, file_data, sock, current_piece, bitfield, piece_data,
                    werr, closes, mainVars, last_error, observed, writes, q_ret, auxVars >>

\* recv_bitfield_payload(sock) returns the payload of the peer's message 5
RecvBitfield(w) ==
    /\ wpc[w] = "bitfield"
    /\ \E bf \in PeerBitfields : bitfield' = [bitfield EXCEPT ![w] = bf]
    /\ wpc' = [wpc EXCEPT ![w] = "interested"]
    /\ UNCHANGED << queue, file_data, sock, current_piece, piece_data, werr,
                    closes, mainVars, last_error, observed, writes, q_ret, auxVars >>

\* send_peer_message(sock, 2, "")
SendInterested(w) ==
    /\ wpc[w] = "interested"
    /\ wpc' = [wpc EXCEPT ![w] = "unchoke"]
    /\ UNCHANGED << queue, file_data, sock, current_piece, bitfield, piece_data,
                    werr, closes, mainVars, last_error, observed, writes, q_ret, auxVars >>

\* wait_for_unchoke(sock) returns
WaitUnchoke(w) ==
    /\ wpc[w] = "unchoke"
    /\ wpc' = [wpc EXCEPT ![w] = "loop"]
    /\ UNCHANGED << queue, file_data, sock, current_piece, bitfield, piece_data,
                    werr, closes, mainVars, last_error, observed, writes, q_ret, auxVars >>

\* while (queue->remaining.load() > 0): the condition holds
LoopContinue(w) ==
    /\ wpc[w] = "loop"
    /\ queue.remaining > 0
    /\ wpc' = [wpc EXCEPT ![w] = "acquire"]
    /\ UNCHANGED << queue, file_data, sock, current_piece, bitfield, piece_data,
                    werr, closes, mainVars, last_error, observed, writes, q_ret, auxVars >>

\* while (queue->remaining.load() > 0): the condition fails, the worker
\* closes its socket and returns
LoopFinish(w) ==
    /\ wpc[w] = "loop"
    /\ ~(queue.remaining > 0)
    /\ CloseAndReturn(w)
    /\ UNCHANGED << queue, file_data, current_piece, bitfield, piece_data, werr,
                    mainVars, last_error, observed, writes, q_ret, auxVars >>

\* current_piece = acquire_next_piece(...) returns a piece; piece_offset
\* and piece_size are computed
AcquirePiece(w) ==
    /\ wpc[w] = "acquire"
    /\ LET r == acquire_next_piece(queue, bitfield[w], NumPieces)
       IN  /\ r.ret >= 0
           /\ IF piece_size(r.ret) < 0
              THEN /\ queue' = mark_piece_retry(r.q, r.ret)
                   /\ closes' = [closes EXCEPT ![w] = @ + 1]
                   /\ werr' = [werr EXCEPT ![w] = "Invalid piece size"]
                   /\ wpc' = [wpc EXCEPT ![w] = "report"]
                   /\ UNCHANGED current_piece
              ELSE /\ queue' = r.q
                   /\ current_piece' = [current_piece EXCEPT ![w] = r.ret]
                   /\ wpc' = [wpc EXCEPT ![w] = "fetch"]
                   /\ UNCHANGED << werr, closes >>
    /\ UNCHANGED << file_data, sock, bitfield, piece_data, mainVars, last_error,
                    observed, writes, q_ret, auxVars >>

\* current_piece = acquire_next_piece(...) returns -1: break, close, return
AcquireNone(w) ==
    /\ wpc[w] = "acquire"
    /\ LET r == acquire_next_piece(queue, bitfield[w], NumPieces)
       IN  /\ r.ret < 0
           /\ queue' = r.q
           /\ current_piece' = [current_piece EXCEPT ![w] = r.ret]
    /\ CloseAndReturn(w)
    /\ UNCHANGED << file_data, bitfield, piece_data, werr, mainVars, last_error,
                    observed, writes, q_ret, auxVars >>

\* download_piece_from_peer returns a piece whose digest is the expected one
DownloadVerified(w) ==
    /\ wpc[w] = "fetch"
    /\ \E d \in PieceDatas(piece_size(current_piece[w])) :
          /\ hash_matches(d, current_piece[w])
          /\ piece_data' = [piece_data EXCEPT ![w] = d]
    /\ wpc' = [wpc EXCEPT ![w] = "write"]
    /\ UNCHANGED << queue, file_data, sock, current_piece, bitfield, werr, closes,
                    mainVars, last_error, observed, writes, q_ret, auxVars >>

\* download_piece_from_peer returns a piece whose digest differs:
\* mark_piece_retry, current_piece = -1
DownloadCorrupt(w) ==
    /\ wpc[w] = "fetch"
    /\ \E d \in PieceDatas(piece_size(current_piece[w])) :
          ~hash_matches(d, current_piece[w])
    /\ queue' = mark_piece_retry(queue, current_piece[w])
    /\ current_piece' = [current_piece EXCEPT ![w] = -1]
    /\ wpc' = [wpc EXCEPT ![w] = "rejected"]
    /\ UNCHANGED << file_data, sock, bitfield, piece_data, werr, closes, mainVars,
                    last_error, observed, writes, q_ret, auxVars >>

\* a rejected piece that ends the session: the socket is closed and the
\* worker returns
CloseAfterReject(w) ==
    /\ wpc[w] = "rejected"
    /\ CloseAndReturn(w)
    /\ UNCHANGED << queue, file_data, current_piece, bitfield, piece_data, werr,
                    mainVars, last_error, observed, writes, q_ret, auxVars >>

\* the `continue` after a rejected piece: back to the while condition, on
\* the same connection
ContinueAfterReject(w) ==
    /\ wpc[w] = "rejected"
    /\ wpc' = [wpc EXCEPT ![w] = "loop"]
    /\ UNCHANGED << queue, file_data, sock, current_piece, bitfield, piece_data,
                    werr, closes, mainVars, last_error, observed, writes, q_ret,
                    auxVars >>

\* a send or a receive on the socket throws (error, EOF, malformed message)
PeerError(w) ==
    /\ wpc[w] \in { "handshake", "bitfield", "interested", "unchoke", "fetch" }
    /\ \E e \in ErrorsAt(wpc[w]) : Catch(w, e)
    /\ UNCHANGED << file_data, mainVars, last_error, observed, writes, q_ret, auxVars >>

\* the bounds test and the memcpy into the shared buffer
WritePiece(w) ==
    /\ wpc[w] = "write"
    /\ LET i == current_piece[w]
       IN  IF piece_offset(i) + piece_size(i) > Len(file_data)
           THEN /\ Catch(w, "Output buffer overflow")
                /\ UNCHANGED << file_data, writes >>
           ELSE /\ file_data' = memcpy(file_data, piece_offset(i), piece_data[w],
                                       piece_size(i))
                /\ writes' = [writes EXCEPT ![i] = Min(@ + 1, 2)]
                /\ wpc' = [wpc EXCEPT ![w] = "markdone"]
                /\ UNCHANGED << queue, sock, current_piece, bitfield, piece_data,
                                werr, closes >>
    /\ UNCHANGED << mainVars, last_error, observed, q_ret, auxVars >>

\* mark_piece_done(*queue, current_piece); current_piece = -1
MarkDone(w) ==
    /\ wpc[w] = "markdone"
    /\ queue' = mark_piece_done(queue, current_piece[w])
    /\ current_piece' = [current_piece EXCEPT ![w] = -1]
    /\ piece_data' = [piece_data EXCEPT ![w] = << >>]
    /\ wpc' = [wpc EXCEPT ![w] = "loop"]
    /\ UNCHANGED << file_data, sock, bitfield, werr, closes, mainVars, last_error,
                    observed, writes, q_ret, auxVars >>

\* the first error recorded wins
record_error(last, e) == IF last = NoError THEN e ELSE last

\* the catch of the thread lambda: under err_mu, records the error; the
\* thread ends
Report(w) ==
    /\ wpc[w] = "report"
    /\ last_error' = record_error(last_error, werr[w])
    /\ observed' = werr[w]
    /\ werr' = [werr EXCEPT ![w] = NoError]
    /\ wpc' = [wpc EXCEPT ![w] = "exited"]
    /\ UNCHANGED << queue, file_data, sock, current_piece, bitfield, piece_data,
                    closes, mainVars, writes, q_ret, auxVars >>

(***************************************************************************)
(* main, `download` command.                                               *)
(***************************************************************************)
\* the workers of the current batch: peers[next_peer .. next_peer+batch-1]
BatchWorkers(first, n) == { w \in Workers : first <= w /\ w < first + n }

\* while (queue.remaining.load() > 0 && next_peer < peers.size()): the
\* condition holds; one thread per peer of the batch is started
MainSpawn ==
    /\ mpc = "loop"
    /\ queue.remaining > 0 /\ next_peer < NumPeers
    /\ LET b == Min(max_workers, NumPeers - next_peer)
       IN  /\ batch' = b
           /\ wpc' = [w \in Workers |->
                         IF w \in BatchWorkers(next_peer, b) THEN "connect" ELSE wpc[w]]
    /\ mpc' = "join"
    /\ UNCHANGED << queue, file_data, sock, current_piece, bitfield, piece_data,
                    werr, closes, next_peer, main_error, out_file, last_error,
                    observed, writes, q_ret, auxVars >>

\* for (auto& t : threads) t.join(); next_peer += batch
MainJoin ==
    /\ mpc = "join"
    /\ \A w \in BatchWorkers(next_peer, batch) : wpc[w] = "exited"
    /\ next_peer' = next_peer + batch
    /\ mpc' = "loop"
    /\ UNCHANGED << queue, file_data, workerVars, batch, main_error, out_file,
                    last_error, observed, writes, q_ret, auxVars >>

\* the while condition of main fails
MainLoopExit ==
    /\ mpc = "loop"
    /\ ~(queue.remaining > 0 /\ next_peer < NumPeers)
    /\ mpc' = "check"
    /\ UNCHANGED << queue, file_data, workerVars, next_peer, batch, main_error,
                    out_file, last_error, observed, writes, q_ret, auxVars >>

\* the test before the file is written, never failing
never_incomplete(q) == FALSE

\* if (queue.remaining.load() > 0)
download_incomplete(q) == q.remaining > 0

\* throw std::runtime_error(last_error.empty() ? "Download incomplete" : last_error)
MainIncomplete ==
    /\ mpc = "check"
    /\ download_incomplete(queue)
    /\ main_error' = IF last_error = NoError THEN "Download incomplete" ELSE last_error
    /\ mpc' = "failed"
    /\ UNCHANGED << queue, file_data, workerVars, next_peer, batch, out_file,
                    last_error, observed, writes, q_ret, auxVars >>

\* std::ofstream out(output_path, binary | trunc) succeeds
MainOpen ==
    /\ mpc = "check"
    /\ ~download_incomplete(queue)
    /\ out_file' = [status |-> "opened", bytes |-> << >>]
    /\ mpc' = "write"
    /\ UNCHANGED << queue, file_data, workerVars, next_peer, batch, main_error,
                    last_error, observed, writes, q_ret, auxVars >>

\* the output file cannot be opened
MainOpenFail ==
    /\ mpc = "check"
    /\ ~download_incomplete(queue)
    /\ main_error' = "Failed to open output file"
    /\ mpc' = "failed"
    /\ UNCHANGED << queue, file_data, workerVars, next_peer, batch, out_file,
                    last_error, observed, writes, q_ret, auxVars >>

\* out.write(file_data.data(), file_data.size()); out.close(); return 0
MainWrite ==
    /\ mpc = "write"
    /\ out_file' = [status |-> "written", bytes |-> file_data]
    /\ mpc' = "done"
    /\ UNCHANGED << queue, file_data, workerVars, next_peer, batch, main_error,
                    last_error, observed, writes, q_ret, auxVars >>

\* out.write fails
MainWriteFail ==
    /\ mpc = "write"
    /\ main_error' = "Failed to write output file"
    /\ mpc' = "failed"
    /\ UNCHANGED << queue, file_data, workerVars, next_peer, batch, out_file,
                    last_error, observed, writes, q_ret, auxVars >>

MainStep ==
    \/ MainSpawn
    \/ MainJoin
    \/ MainLoopExit
    \/ MainIncomplete
    \/ MainOpen
    \/ MainOpenFail
    \/ MainWrite
    \/ MainWriteFail

WorkerStep(w) ==
    \/ Connect(w)
    \/ ConnectFail(w)
    \/ Handshake(w)
    \/ RecvBitfield(w)
    \/ SendInterested(w)
    \/ WaitUnchoke(w)
    \/ LoopContinue(w)
    \/ LoopFinish(w)
    \/ AcquirePiece(w)
    \/ AcquireNone(w)
    \/ DownloadVerified(w)
    \/ DownloadCorrupt(w)
    \/ ContinueAfterReject(w)
    \/ PeerError(w)
    \/ WritePiece(w)
    \/ MarkDone(w)
    \/ Report(w)

Next == MainStep \/ \E w \in Workers : WorkerStep(w)

Spec == Init /\ [][Next]_vars

(***************************************************************************)
(* The download with peers that answer every request correctly: every      *)
(* connect, handshake, bitfield, unchoke and block request is answered,    *)
(* and every piece delivered has the expected digest.                      *)
(***************************************************************************)
HonestWorkerStep(w) ==
    \/ Connect(w)
    \/ Handshake(w)
    \/ RecvBitfield(w)
    \/ SendInterested(w)
    \/ WaitUnchoke(w)
    \/ LoopContinue(w)
    \/ LoopFinish(w)
    \/ AcquirePiece(w)
    \/ AcquireNone(w)
    \/ DownloadVerified(w)
    \/ WritePiece(w)
    \/ MarkDone(w)

HonestMainStep ==
    \/ MainSpawn
    \/ MainJoin
    \/ MainLoopExit
    \/ MainIncomplete
    \/ MainOpen
    \/ MainWrite

HonestNext == HonestMainStep \/ \E w \in Workers : HonestWorkerStep(w)

HonestSpec == Init /\ [][HonestNext]_vars /\ WF_vars(HonestNext)

(***************************************************************************)
(* Queue harness: any sequence of calls of the three queue operations,     *)
(* with any argument, on a queue of QueuePieces cells.                     *)
(***************************************************************************)
QueueIndexes == -1 .. QueuePieces

QueueInit == DownloadInit(PieceWorkQueue(QueuePieces))

\* q_ret = acquire_next_piece(queue, bf, num_pieces)
QueueAcquire(bf) ==
    /\ LET r == acquire_next_piece(queue, bf, QueuePieces)
       IN  /\ queue' = r.q
           /\ q_ret' = r.ret
    /\ UNCHANGED << file_data, workerVars, mainVars, last_error, observed, writes,
                    auxVars >>

\* mark_piece_done(queue, i)
QueueComplete(i) ==
    /\ queue' = mark_piece_done(queue, i)
    /\ UNCHANGED << file_data, workerVars, mainVars, last_error, observed, writes,
                    q_ret, auxVars >>

\* mark_piece_retry(queue, i)
QueueRelease(i) ==
    /\ queue' = mark_piece_retry(queue, i)
    /\ UNCHANGED << file_data, workerVars, mainVars, last_error, observed, writes,
                    q_ret, auxVars >>

QueueNext ==
    \/ \E bf \in QueueBitfields : QueueAcquire(bf)
    \/ \E i \in QueueIndexes : QueueComplete(i)
    \/ \E i \in QueueIndexes : QueueRelease(i)

QueueSpec == QueueInit /\ [][QueueNext]_vars

(***************************************************************************)
(* Properties.                                                             *)
(***************************************************************************)
\* the byte range [i*piece_length, min((i+1)*piece_length, total_length))
RangeOf(i) == { k \in 0 .. TotalLength - 1 :
                  i * PieceLength <= k /\ k < Min((i + 1) * PieceLength, TotalLength) }

\* the bytes of a buffer in the range of piece i, in order
RangeBytes(buf, i) ==
    [k \in 1 .. Cardinality(RangeOf(i)) |-> buf[i * PieceLength + k]]

\* bit i of a bitfield payload is set (most significant bit of byte 0 is
\* piece 0); a bit beyond the payload is not set
Advertises(bf, i) ==
    /\ i \div 8 < Len(bf)
    /\ (bf[(i \div 8) + 1] \div (2 ^ (7 - (i % 8)))) % 2 = 1

\* worker w holds piece i: acquire returned i to w, and w has neither
\* completed nor released it
Holds(w, i) == wpc[w] \in { "fetch", "write", "markdone" } /\ current_piece[w] = i

\* the thread of worker w is not running
Ended(w) == wpc[w] \in { "idle", "exited" }

\* C1: a cell is done only if its range of the output buffer holds bytes
\* whose digest is piece_digests[i], and the bytes of every piece of the
\* output file written by a successful download have the digest of that
\* piece.
C1_VerifiedOutput ==
    /\ \A i \in Pieces :
          queue.state[i] = DONE => Digest(RangeBytes(file_data, i)) = pieces_blob[i]
    /\ out_file.status = "written" =>
          /\ Len(out_file.bytes) = TotalLength
          /\ \A i \in Pieces : Digest(RangeBytes(out_file.bytes, i)) = pieces_blob[i]

C1_Witness == mpc = "done" /\ out_file.status = "written" /\ queue.remaining = 0

\* C2, state part: two workers that are copying a piece into the output
\* buffer at the same time copy into disjoint ranges, no range is copied
\* into more than once in the whole run, and no worker copies into the
\* range of a piece that is done.
C2_Disjoint ==
    /\ \A w1, w2 \in Workers :
          (w1 # w2 /\ wpc[w1] = "write" /\ wpc[w2] = "write") =>
              RangeOf(current_piece[w1]) \cap RangeOf(current_piece[w2]) = { }
    /\ \A i \in Pieces : writes[i] <= 1
    /\ \A w \in Workers :
          wpc[w] = "write" => queue.state[current_piece[w]] = IN_PROGRESS

\* C2, step part: a byte of the output buffer changes only in a step of a
\* worker that is copying the piece whose range holds that byte.
C2_WriteInRange ==
    \A k \in 1 .. TotalLength :
        file_data'[k] # file_data[k] =>
            \E w \in Workers :
                /\ wpc[w] = "write" /\ wpc'[w] = "markdone"
                /\ (k - 1) \in RangeOf(current_piece[w])

\* C2: under every interleaving no two workers write overlapping byte
\* ranges of the output buffer; each piece's range is written by at most one
\* worker at a time and at most once, and never after the piece is done.
C2_DisjointWrites == [] C2_Disjoint /\ [][C2_WriteInRange]_vars

C2_Witness ==
    \E w1, w2 \in Workers :
        /\ w1 # w2 /\ wpc[w1] = "write" /\ wpc[w2] = "write"
        /\ \E i \in Pieces : writes[i] = 1

\* C3: remaining equals the number of cells that are not done, in every
\* state reached by any sequence of acquire, complete and release calls.
C3_RemainingCount ==
    /\ queue.remaining = Cardinality({ i \in DOMAIN queue.state : queue.state[i] # DONE })
    /\ queue.remaining >= 0
    /\ queue.remaining = 0 <=> \A i \in DOMAIN queue.state : queue.state[i] = DONE

C3_Witness ==
    /\ queue.remaining = 0
    /\ \A i \in DOMAIN queue.state : queue.state[i] = DONE

\* the change of one cell in one step is one of the three permitted
\* transitions, each made by its own operation
C4_Step ==
    \A i \in DOMAIN queue.state :
        queue.state'[i] # queue.state[i] =>
            \/ /\ queue.state[i] = PENDING /\ queue.state'[i] = IN_PROGRESS
               /\ \E bf \in QueueBitfields : QueueAcquire(bf)
            \/ /\ queue.state[i] = IN_PROGRESS /\ queue.state'[i] = DONE
               /\ QueueComplete(i)
            \/ /\ queue.state[i] = IN_PROGRESS /\ queue.state'[i] = PENDING
               /\ QueueRelease(i)

\* C4: every cell starts pending and changes only by pending -> in-progress
\* (acquire), in-progress -> done (complete) or in-progress -> pending
\* (release); done is absorbing and no cell goes from pending to done.
C4_CellTransitions ==
    /\ \A i \in DOMAIN queue.state : queue.state[i] = PENDING
    /\ [][C4_Step]_vars
    /\ [][\A i \in DOMAIN queue.state : queue.state[i] = DONE => queue.state'[i] = DONE]_vars

C4_Witness ==
    /\ \E i \in DOMAIN queue.state : queue.state[i] = DONE
    /\ \E i \in DOMAIN queue.state : queue.state[i] = IN_PROGRESS
    /\ queue.state[0] = PENDING /\ q_ret > 0

\* the pending cells whose bit is set in the payload bf
Wanted(bf) == { i \in DOMAIN queue.state : queue.state[i] = PENDING /\ Advertises(bf, i) }

\* what C5 requires of one call of acquire with payload bf
C5_Post(bf) ==
    IF Wanted(bf) = { }
    THEN q_ret' = -1 /\ queue' = queue
    ELSE /\ q_ret' \in Wanted(bf)
         /\ \A j \in Wanted(bf) : q_ret' <= j
         /\ queue' = [queue EXCEPT !.state[q_ret'] = IN_PROGRESS]

\* C5: for every bitfield payload, the zero-length one included, acquire
\* returns the lowest pending index whose bit is set in the payload and
\* sets exactly that cell to in-progress, or returns -1 and changes nothing
\* when there is none.
C5_AcquireLowestAdvertised ==
    [][\A bf \in QueueBitfields : QueueAcquire(bf) => C5_Post(bf)]_vars

\* C6: no cell is held in progress by two workers at once, and a cell is
\* in progress exactly while one worker holds it, so an index returned to
\* one worker is not returned to another before it is released.
C6_ExclusiveHold ==
    \A i \in Pieces :
        /\ Cardinality({ w \in Workers : Holds(w, i) }) <= 1
        /\ queue.state[i] = IN_PROGRESS <=> \E w \in Workers : Holds(w, i)

C6_Witness ==
    \E w1, w2 \in Workers :
        /\ w1 # w2 /\ Holds(w1, 0) /\ Holds(w2, 1)
        /\ bitfield[w1] = bitfield[w2]

C8_LastObservedError ==
    (mpc = "failed" /\ queue.remaining > 0 /\ observed # NoError) =>
        main_error = observed

\* a step in which worker w fails while it holds a piece
C9_Step ==
    \A w \in Workers :
        (Holds(w, current_piece[w]) /\ wpc'[w] = "report") =>
            LET i == current_piece[w]
            IN  /\ queue.state[i] = IN_PROGRESS
                /\ queue'.state[i] = PENDING
                /\ queue'.remaining = queue.remaining
                /\ \A j \in Pieces : j # i => queue'.state[j] = queue.state[j]
                /\ \A v \in Workers : v # w => wpc'[v] = wpc[v]

AdvertisedBySomePeer(i) ==
    \E w \in Workers :
        /\ wpc[w] \notin { "idle", "connect", "handshake", "bitfield" }
        /\ Advertises(bitfield[w], i)

\* C10: with peers that answer every request correctly, a download in
\* which some piece is advertised by no connected peer's bitfield ends in
\* failure: it never gets to write the output file.
C10_UnadvertisedFails ==
    (mpc \in { "write", "done" }) => \A i \in Pieces : AdvertisedBySomePeer(i)

(***************************************************************************)
(* The download under fair scheduling: the main thread and every worker    *)
(* thread keep running, and a peer answers each request or closes the      *)
(* connection (a worker waiting on its socket eventually takes a step).    *)
(***************************************************************************)
FairSpec ==
    /\ Init
    /\ [][Next]_vars
    /\ WF_vars(MainStep)
    /\ \A w \in Workers : WF_vars(WorkerStep(w))

\* C11: under fairness every download run terminates, also when a peer
\* answers every request with data that fails the digest check.
C11_Terminates == <>(mpc \in { "done", "failed" })

\* a step in which worker w rejects the piece it assembled
C12_Step ==
    \A w \in Workers :
        (wpc[w] = "fetch" /\ wpc'[w] = "rejected") =>
            LET i == current_piece[w]
            IN  /\ queue'.state[i] = PENDING
                /\ queue'.remaining = queue.remaining
                /\ file_data' = file_data
                /\ writes' = writes

\* C12: a piece whose digest differs from piece_digests[i] is rejected: its
\* cell goes back to pending, remaining is not decremented and no byte of
\* the output buffer changes; only a piece with the expected digest reaches
\* the copy into the output buffer.
C12_CorruptRejected ==
    /\ [][C12_Step]_vars
    /\ [](\A w \in Workers :
             wpc[w] \in { "write", "markdone" } =>
                 Digest(piece_data[w]) = pieces_blob[current_piece[w]])

C12_Witness ==
    \E w \in Workers :
        /\ wpc[w] = "rejected"
        /\ \E i \in Pieces : queue.state[i] = DONE
        /\ \E i \in Pieces : queue.state[i] = PENDING /\ file_data[piece_offset(i) + 1] = 0

\* C13: after a digest mismatch the worker has released the piece, and its
\* next step closes the connection and ends the worker, so that no further
\* request is sent on that session.
C13_ClosesAfterCorrupt ==
    /\ [](\A w \in Workers : wpc[w] = "rejected" => current_piece[w] = -1)
    /\ [][\A w \in Workers :
             (wpc[w] = "rejected" /\ wpc'[w] # "rejected") =>
                 /\ closes'[w] = closes[w] + 1
                 /\ wpc'[w] \in { "report", "exited" }]_vars

\* C13 as amended: after a digest mismatch the worker has released the
\* piece and keeps its connection open; its next step returns to the
\* acquire loop on the same session.
C13_ContinuesAfterCorrupt ==
    /\ [](\A w \in Workers :
             wpc[w] = "rejected" =>
                 /\ current_piece[w] = -1
                 /\ sock[w] # INVALID_SOCKET
                 /\ closes[w] = 0
                 /\ \A i \in Pieces : ~Holds(w, i))
    /\ [][\A w \in Workers :
             (wpc[w] = "rejected" /\ wpc'[w] # "rejected") =>
                 /\ wpc'[w] = "loop"
                 /\ sock'[w] = sock[w]
                 /\ closes'[w] = closes[w]]_vars

C13_Witness ==
    \E w \in Workers :
        /\ wpc[w] = "rejected" /\ sock[w] # INVALID_SOCKET /\ closes[w] = 0
        /\ queue.remaining = NumPieces
        /\ \A i \in Pieces : queue.state[i] = PENDING

(***************************************************************************)
(* Byte strings.  A byte string is a record of its explicit leading bytes  *)
(* b and the number z of body bytes that follow them; every body byte has  *)
(* the value BodyByte, which no explicit byte of the model has, so that a  *)
(* string has one representation.  Long payloads are strings with z > 0.   *)
(***************************************************************************)
BodyByte == 97

Bytes(seq) == [b |-> seq, z |-> 0]
EmptyStr == Bytes(<< >>)

\* std::string::size
StrLen(s) == Len(s.b) + s.z

\* s[k], k counted from 0
StrAt(s, k) == IF k < Len(s.b) THEN s.b[k + 1] ELSE BodyByte

\* s.substr(0, n), for n <= size
StrTake(s, n) ==
    IF n <= Len(s.b) THEN [b |-> SubSeq(s.b, 1, n), z |-> 0]
    ELSE [b |-> s.b, z |-> n - Len(s.b)]

\* s.substr(n), for n <= size
StrDrop(s, n) ==
    IF n <= Len(s.b) THEN [b |-> SubSeq(s.b, n + 1, Len(s.b)), z |-> s.z]
    ELSE [b |-> << >>, z |-> s.z - (n - Len(s.b))]

\* explicit bytes followed by a string
StrCat(seq, s) == [b |-> seq \o s.b, z |-> s.z]

(***************************************************************************)
(* Wire framer: read_u32_be, append_u32_be, recv_exact, recv_peer_message, *)
(* send_peer_message.                                                      *)
(***************************************************************************)
read_u32_be(buf, offset) ==
    StrAt(buf, offset) * 16777216 + StrAt(buf, offset + 1) * 65536
        + StrAt(buf, offset + 2) * 256 + StrAt(buf, offset + 3)

\* append_u32_be with the bytes in the opposite order
append_u32_le(out, value) ==
    out \o << value % 256, (value \div 256) % 256, (value \div 65536) % 256,
              (value \div 16777216) % 256 >>

append_u32_be(out, value) ==
    out \o << (value \div 16777216) % 256, (value \div 65536) % 256,
              (value \div 256) % 256, value % 256 >>

\* the bytes send_peer_message hands to send_all (payloads of the model are
\* far shorter than 2^32 - 1 bytes, so 1 + payload.size() does not wrap)
send_peer_message(id, payload) ==
    LET length == 1 + StrLen(payload)
    IN  StrCat(append_u32_be(<< >>, length) \o << id >>, payload)

\* recv_exact that returns the bytes it got when the peer closes early
recv_exact_short(wire, length) ==
    IF StrLen(wire) >= length
    THEN [ok |-> TRUE, out |-> StrTake(wire, length), rest |-> StrDrop(wire, length),
          err |-> NoError]
    ELSE [ok |-> TRUE, out |-> wire, rest |-> EmptyStr, err |-> NoError]

\* recv_exact on a connection that delivers the bytes of `wire` and then
\* reports EOF: the string of `length` bytes and the bytes left, or the
\* exception
recv_exact(wire, length) ==
    IF StrLen(wire) >= length
    THEN [ok |-> TRUE, out |-> StrTake(wire, length), rest |-> StrDrop(wire, length),
          err |-> NoError]
    ELSE [ok |-> FALSE, out |-> EmptyStr, rest |-> EmptyStr,
          err |-> "Peer closed connection"]

NoMessage == [none |-> TRUE]

\* struct PeerMessage
PeerMessage(length, keepalive, id, payload) ==
    [length |-> length, keepalive |-> keepalive, id |-> id, payload |-> payload]

\* recv_peer_message: the message, the bytes left on the connection, or the
\* exception
recv_peer_message(wire) ==
    LET len_bytes == recv_exact(wire, 4)
    IN  IF ~len_bytes.ok THEN [msg |-> NoMessage, rest |-> EmptyStr, err |-> len_bytes.err]
        ELSE LET length == read_u32_be(len_bytes.out, 0)
             IN  IF length = 0
                 THEN [msg |-> PeerMessage(0, TRUE, 0, EmptyStr),
                       rest |-> len_bytes.rest, err |-> NoError]
                 ELSE LET rest == recv_exact(len_bytes.rest, length)
                      IN  IF ~rest.ok
                          THEN [msg |-> NoMessage, rest |-> EmptyStr, err |-> rest.err]
                          ELSE [msg |-> PeerMessage(length, FALSE, StrAt(rest.out, 0),
                                                    IF length > 1 THEN StrDrop(rest.out, 1)
                                                    ELSE EmptyStr),
                                rest |-> rest.rest, err |-> NoError]

(***************************************************************************)
(* The framer on one connection: one frame is put on the wire, by          *)
(* send_peer_message or by a remote peer, the connection may be closed     *)
(* before the whole frame has been delivered, and recv_peer_message reads. *)
(***************************************************************************)
\* message ids and payloads handed to send_peer_message
FrameIds == { 0, 1, 2, 4, 5, 6, 7, 20, 255 }
FramePayloads ==
    { EmptyStr, Bytes(<<0>>), Bytes(<<1, 2>>), Bytes(<<0, 0, 0, 0>>),
      Bytes(<<0, 0, 0, 1, 0, 0, 64, 0, 0, 0, 64, 0>>),
      [b |-> <<0, 0, 0, 1, 0, 0, 64, 0>>, z |-> 16384] }

\* length prefixes a remote peer sends, each followed by that many bytes
PeerFrameLengths == { 0, 1, 2, 9, 16393, 1048576, 1048577, 2097152, 16777216 }

\* numbers of bytes after which the connection is closed
CutPoints(wire) ==
    { k \in 0 .. StrLen(wire) - 1 : k <= 6 \/ k >= StrLen(wire) - 2 }

FrameStart(wire, sent) ==
    [pc |-> "wire", wire |-> wire, closed |-> FALSE, sent |-> sent,
     msg |-> NoMessage, err |-> NoError, used |-> 0]

\* send_peer_message(sock, id, payload)
FrameSend ==
    /\ frame.pc = "idle"
    /\ \E id \in FrameIds, payload \in FramePayloads :
          frame' = FrameStart(send_peer_message(id, payload),
                              [id |-> id, payload |-> payload])
    /\ UNCHANGED << downloadVars, sha, cmd, sess, blk, hs, magnet, benc >>

\* a remote peer sends a length prefix L and L bytes
FramePeerSend ==
    /\ frame.pc = "idle"
    /\ \E L \in PeerFrameLengths :
          frame' = FrameStart([b |-> append_u32_be(<< >>, L), z |-> L], NoMessage)
    /\ UNCHANGED << downloadVars, sha, cmd, sess, blk, hs, magnet, benc >>

\* the connection delivers only the first k bytes of the frame and is closed
FrameCut ==
    /\ frame.pc = "wire"
    /\ ~frame.closed
    /\ \E k \in CutPoints(frame.wire) :
          frame' = [frame EXCEPT !.wire = StrTake(frame.wire, k), !.closed = TRUE]
    /\ UNCHANGED << downloadVars, sha, cmd, sess, blk, hs, magnet, benc >>

\* msg = recv_peer_message(sock)
FrameRecv ==
    /\ frame.pc = "wire"
    /\ LET r == recv_peer_message(frame.wire)
       IN  frame' = [frame EXCEPT !.pc = "done", !.msg = r.msg, !.err = r.err,
                                  !.used = StrLen(frame.wire) - StrLen(r.rest)]
    /\ UNCHANGED << downloadVars, sha, cmd, sess, blk, hs, magnet, benc >>

\* recv() returns SOCKET_ERROR
FrameRecvError ==
    /\ frame.pc = "wire"
    /\ frame' = [frame EXCEPT !.pc = "done", !.err = "Failed to receive data"]
    /\ UNCHANGED << downloadVars, sha, cmd, sess, blk, hs, magnet, benc >>

FrameNext ==
    \/ FrameSend
    \/ FramePeerSend
    \/ FrameCut
    \/ FrameRecv
    \/ FrameRecvError

FrameSpec == Init /\ [][FrameNext]_vars

\* the value of a 4-byte big-endian prefix
PrefixValue(s) == s.b[1] * 16777216 + s.b[2] * 65536 + s.b[3] * 256 + s.b[4]

\* C16: send_peer_message emits a 4-byte big-endian length 1 + |payload|,
\* the id byte and the payload; recv_peer_message applied to exactly those
\* bytes returns that id and payload and consumes 4 + L bytes; a length
\* prefix of 0 is a keep-alive without id or payload.
C16_FramingRoundTrip ==
    /\ (frame.pc # "idle" /\ frame.sent # NoMessage /\ ~frame.closed) =>
          /\ StrLen(frame.wire) = 5 + StrLen(frame.sent.payload)
          /\ \A k \in 1 .. 4 : frame.wire.b[k] \in 0 .. 255
          /\ PrefixValue(frame.wire) = 1 + StrLen(frame.sent.payload)
          /\ frame.wire.b[5] = frame.sent.id
          /\ StrDrop(frame.wire, 5) = frame.sent.payload
    /\ (frame.pc = "done" /\ frame.sent # NoMessage /\ ~frame.closed
            /\ frame.err # "Failed to receive data") =>
          /\ frame.err = NoError
          /\ frame.msg = PeerMessage(1 + StrLen(frame.sent.payload), FALSE,
                                     frame.sent.id, frame.sent.payload)
          /\ frame.used = 4 + frame.msg.length
          /\ frame.used = StrLen(frame.wire)
    /\ (frame.pc = "done" /\ frame.err = NoError /\ PrefixValue(frame.wire) = 0) =>
          /\ frame.msg.keepalive
          /\ frame.msg.payload = EmptyStr
          /\ frame.msg.length = 0
          /\ frame.used = 4

C16_Witness ==
    /\ frame.pc = "done" /\ frame.sent # NoMessage /\ frame.err = NoError
    /\ frame.msg.id = 7 /\ StrLen(frame.msg.payload) = 16392

\* C17: when the connection ends inside the length prefix or before all L
\* bytes after it have arrived, recv_peer_message fails with the
\* peer-closed error; a message it returns is never truncated.
C17_EofMidFrame ==
    /\ (frame.pc = "done" /\ frame.closed) =>
          /\ frame.msg = NoMessage
          /\ frame.err \in { "Peer closed connection", "Failed to receive data" }
    /\ (frame.pc = "done" /\ frame.msg # NoMessage) =>
          /\ frame.err = NoError
          /\ ~frame.closed
          /\ frame.used = 4 + frame.msg.length
          /\ ~frame.msg.keepalive => StrLen(frame.msg.payload) = frame.msg.length - 1

C17_Witness ==
    /\ frame.pc = "done" /\ frame.closed
    /\ frame.err = "Peer closed connection"
    /\ StrLen(frame.wire) > 4

\* the cap on the length prefix: 1 MiB plus the header of a piece message
OversizedCap == 1024 * 1024 + 9

\* C18: recv_peer_message never returns a message whose length prefix
\* exceeds the cap; it fails with an Oversized error instead.
C18_OversizedRejected ==
    frame.pc = "done" =>
        /\ frame.msg # NoMessage => frame.msg.length <= OversizedCap
        /\ (~frame.closed /\ frame.err # "Failed to receive data"
                /\ PrefixValue(frame.wire) > OversizedCap) => frame.err = "Oversized"

(***************************************************************************)
(* download_piece_from_peer, block by block.  piece_data is kept as the    *)
(* sequence of its blocks; the first byte of a block is explicit, so that  *)
(* the data of two responses can differ.                                   *)
(***************************************************************************)
MaxBlocks == 3

block_size == 16 * 1024

\* piece sizes of 1 .. MaxBlocks blocks, the last block short or full
BlockPieceSizes ==
    { (n - 1) * block_size + r : n \in 1 .. MaxBlocks, r \in { 1, 100, block_size } }

BlockPieceIndexes == { 0, 1 }

NumBlocks(size) == (size + block_size - 1) \div block_size

\* req_len = block_size for every block
req_len_full(size, begin) == block_size

\* req_len = std::min(block_size, piece_size - begin)
req_len(size, begin) == Min(block_size, size - begin)

\* piece_data.resize(piece_size): every block starts with a zero byte
ResizedPiece(size) ==
    [k \in 1 .. NumBlocks(size) |->
        [b |-> << 0 >>, z |-> req_len(size, (k - 1) * block_size) - 1]]

\* the payload of the request: index(4) + begin(4) + length(4)
request_payload(index, begin, length) ==
    Bytes(append_u32_be(append_u32_be(append_u32_be(<< >>, index), begin), length))

\* a piece message of a peer: id 7, index(4) + begin(4) + n bytes of data
\* whose first byte is tag
piece_message(index, begin, n, tag) ==
    LET block == IF n = 0 THEN EmptyStr ELSE [b |-> << tag >>, z |-> n - 1]
        payload == StrCat(append_u32_be(append_u32_be(<< >>, index), begin), block)
    IN  PeerMessage(1 + StrLen(payload), FALSE, 7, payload)

BlockTags == { 1, 2 }

\* what recv_peer_message may return while the piece is downloaded
BlockMessages(index, size) ==
    { PeerMessage(0, TRUE, 0, EmptyStr),
      PeerMessage(1, FALSE, 0, EmptyStr),
      PeerMessage(1, FALSE, 1, EmptyStr),
      PeerMessage(5, FALSE, 4, Bytes(<<0, 0, 0, 1>>)),
      PeerMessage(5, FALSE, 7, Bytes(<<0, 0, 0, 0>>)) }
    \cup { piece_message(i, (k - 1) * block_size, n, t) :
              i \in { index, 1 - index }, k \in 1 .. NumBlocks(size),
              n \in { req_len(size, 0), req_len(size, (NumBlocks(size) - 1) * block_size) },
              t \in BlockTags }

\* the test of a response against the outstanding request, on the index only
response_matches_index(resp_index, resp_begin, piece_index, begin) ==
    ~(resp_index # piece_index)

\* !(resp_index != piece_index || resp_begin != begin)
response_matches(resp_index, resp_begin, piece_index, begin) ==
    ~(resp_index # piece_index \/ resp_begin # begin)

\* download_piece_from_peer(sock, piece_index, piece_size) is called
BlockStart ==
    /\ blk.pc = "idle"
    /\ \E index \in BlockPieceIndexes, size \in BlockPieceSizes :
          blk' = [pc |-> "request", piece_index |-> index, piece_size |-> size,
                  begin |-> 0, piece_data |-> ResizedPiece(size),
                  filled |-> [k \in 1 .. NumBlocks(size) |-> NoMessage],
                  sent |-> EmptyStr, msg |-> NoMessage, err |-> NoError]
    /\ UNCHANGED << downloadVars, sha, cmd, sess, frame, hs, magnet, benc >>

\* send_peer_message(sock, 6, payload)
BlockRequest ==
    /\ blk.pc = "request"
    /\ blk' = [blk EXCEPT
                  !.pc = "recv",
                  !.sent = send_peer_message(6,
                              request_payload(blk.piece_index, blk.begin,
                                              req_len(blk.piece_size, blk.begin)))]
    /\ UNCHANGED << downloadVars, sha, cmd, sess, frame, hs, magnet, benc >>

\* send_all throws
BlockRequestFail ==
    /\ blk.pc = "request"
    /\ blk' = [blk EXCEPT !.pc = "failed", !.err = "Failed to send data"]
    /\ UNCHANGED << downloadVars, sha, cmd, sess, frame, hs, magnet, benc >>

\* one iteration of the inner loop on the message msg
HandleMessage(msg) ==
    IF msg.keepalive THEN [blk EXCEPT !.msg = msg]
    ELSE IF msg.id = 0 THEN [blk EXCEPT !.msg = msg, !.pc = "choked"]
    ELSE IF msg.id = 1 THEN [blk EXCEPT !.msg = msg]
    ELSE IF msg.id # 7 THEN [blk EXCEPT !.msg = msg]
    ELSE IF StrLen(msg.payload) < 8
         THEN [blk EXCEPT !.msg = msg, !.pc = "failed",
                          !.err = "Invalid piece message payload"]
    ELSE LET resp_index == read_u32_be(msg.payload, 0)
             resp_begin == read_u32_be(msg.payload, 4)
             block == StrDrop(msg.payload, 8)
             k == blk.begin \div block_size + 1
             next_begin == blk.begin + block_size
         IN  IF ~response_matches(resp_index, resp_begin, blk.piece_index, blk.begin)
             THEN [blk EXCEPT !.msg = msg]
             ELSE IF StrLen(block) # req_len(blk.piece_size, blk.begin)
             THEN [blk EXCEPT !.msg = msg, !.pc = "failed",
                              !.err = "Unexpected block length"]
             ELSE [blk EXCEPT !.msg = msg,
                              !.piece_data[k] = block,
                              !.filled[k] = msg,
                              !.begin = next_begin,
                              !.pc = IF next_begin < blk.piece_size THEN "request"
                                     ELSE "returned"]

\* msg = recv_peer_message(sock) in the inner loop
BlockRecv ==
    /\ blk.pc = "recv"
    /\ \E msg \in BlockMessages(blk.piece_index, blk.piece_size) :
          blk' = HandleMessage(msg)
    /\ UNCHANGED << downloadVars, sha, cmd, sess, frame, hs, magnet, benc >>

\* wait_for_unchoke followed by the receive loop, without a request
BlockWaitUnchokeNoResend ==
    /\ blk.pc = "choked"
    /\ \E msg \in BlockMessages(blk.piece_index, blk.piece_size) :
          blk' = IF ~msg.keepalive /\ msg.id = 1
                 THEN [blk EXCEPT !.msg = msg, !.pc = "recv"]
                 ELSE [blk EXCEPT !.msg = msg]
    /\ UNCHANGED << downloadVars, sha, cmd, sess, frame, hs, magnet, benc >>

\* msg = recv_peer_message(sock) in wait_for_unchoke
BlockWaitUnchoke ==
    /\ blk.pc = "choked"
    /\ \E msg \in BlockMessages(blk.piece_index, blk.piece_size) :
          blk' = IF ~msg.keepalive /\ msg.id = 1
                 THEN [blk EXCEPT !.msg = msg, !.pc = "request"]
                 ELSE [blk EXCEPT !.msg = msg]
    /\ UNCHANGED << downloadVars, sha, cmd, sess, frame, hs, magnet, benc >>

\* recv_peer_message throws
BlockRecvFail ==
    /\ blk.pc \in { "recv", "choked" }
    /\ \E e \in { "Peer closed connection", "Failed to receive data" } :
          blk' = [blk EXCEPT !.pc = "failed", !.err = e, !.msg = NoMessage]
    /\ UNCHANGED << downloadVars, sha, cmd, sess, frame, hs, magnet, benc >>

BlockNext ==
    \/ BlockStart
    \/ BlockRequest
    \/ BlockRequestFail
    \/ BlockRecv
    \/ BlockWaitUnchoke
    \/ BlockRecvFail

BlockSpec == Init /\ [][BlockNext]_vars

\* msg is a piece message for another (index, begin) than the outstanding one
C14_Mismatch(msg) ==
    /\ msg # NoMessage /\ ~msg.keepalive /\ msg.id = 7
    /\ StrLen(msg.payload) >= 8
    /\ \/ read_u32_be(msg.payload, 0) # blk.piece_index
       \/ read_u32_be(msg.payload, 4) # blk.begin

C14_Step ==
    (blk.pc \in { "recv", "choked" } /\ C14_Mismatch(blk'.msg)) =>
        /\ blk'.piece_data = blk.piece_data
        /\ blk'.filled = blk.filled
        /\ blk'.begin = blk.begin
        /\ blk'.pc = blk.pc

\* C14: a piece message whose (index, begin) differs from the outstanding
\* request writes nothing into the piece buffer and does not complete the
\* block; every block of the piece that is returned holds the data of a
\* response whose (index, begin) is that block's request.
C14_BlocksMatchRequests ==
    /\ [][C14_Step]_vars
    /\ [](blk.pc = "returned" =>
            \A k \in 1 .. NumBlocks(blk.piece_size) :
                LET m == blk.filled[k]
                IN  /\ m # NoMessage
                    /\ m.id = 7
                    /\ read_u32_be(m.payload, 0) = blk.piece_index
                    /\ read_u32_be(m.payload, 4) = (k - 1) * block_size
                    /\ blk.piece_data[k] = StrDrop(m.payload, 8)
                    /\ StrLen(blk.piece_data[k])
                           = Min(block_size, blk.piece_size - (k - 1) * block_size))

\* a piece of three blocks was returned after a response for another block
\* had arrived last but one, with different data in its blocks
C14_Witness ==
    /\ blk.pc = "returned"
    /\ NumBlocks(blk.piece_size) = 3
    /\ blk.piece_data[1].b = << 2 >>
    /\ blk.piece_data[2].b = << 1 >>
    /\ blk.piece_data[3].b = << 2 >>

(***************************************************************************)
(* build_handshake and perform_handshake on one connection, followed by    *)
(* the messages the callers send after the handshake returned.             *)
(***************************************************************************)
MaxSessionMessages == 2

\* "BitTorrent protocol"
ProtocolLiteral ==
    << 66, 105, 116, 84, 111, 114, 114, 101, 110, 116, 32,
       112, 114, 111, 116, 111, 99, 111, 108 >>

\* 20 bytes first, first + 1, ...
Run20(first) == [k \in 1 .. 20 |-> first + k - 1]

build_handshake(info_hash, peer_id, support_extensions) ==
    << 19 >> \o ProtocolLiteral
        \o (IF support_extensions THEN << 0, 0, 0, 0, 0, 16, 0, 0 >>
            ELSE << 0, 0, 0, 0, 0, 0, 0, 0 >>)
        \o info_hash \o peer_id

\* the 68-byte responses of peers
HandshakeResponses ==
    { << first >> \o literal \o << r0, 0, 0, 0, 0, r5, 0, r7 >> \o Run20(ih) \o Run20(id) :
        first \in { 19, 0, 20 },
        literal \in { ProtocolLiteral,
                      [ProtocolLiteral EXCEPT ![19] = 76],
                      [ProtocolLiteral EXCEPT ![1] = 98],
                      [k \in 1 .. 19 |-> 0] },
        r0 \in { 0, 128 },
        r5 \in { 0, 16, 20, 239 },
        r7 \in { 0, 1 },
        ih \in { 100, 130 },
        id \in { 200, 220 } }

\* the test of the response on its first byte only
response_valid_first_byte(response) ==
    ~(response[1] # 19)

\* !(response[0] != 19 || response.substr(1, 19) != "BitTorrent protocol")
response_valid(response) ==
    ~(response[1] # 19 \/ SubSeq(response, 2, 20) # ProtocolLiteral)

\* reserved_byte != 0
supports_extensions_any_bit(response) == response[26] # 0

\* (reserved_byte & 0x10) != 0
supports_extensions(response) == (response[26] \div 16) % 2 = 1

\* response.substr(48, 20)
received_peer_id(response) == SubSeq(response, 49, 68)

\* send_all(sock, build_handshake(...))
HsSend ==
    /\ hs.pc = "idle"
    /\ \E support_extensions \in BOOLEAN :
          hs' = [pc |-> "sent", support_extensions |-> support_extensions,
                 out |-> build_handshake(Run20(100), Run20(40), support_extensions),
                 response |-> << >>, peer_id |-> << >>,
                 peer_supports_extensions |-> FALSE,
                 err |-> NoError, later |-> << >>]
    /\ UNCHANGED << downloadVars, sha, cmd, sess, frame, blk, magnet, benc >>

\* send_all throws
HsSendFail ==
    /\ hs.pc = "idle"
    /\ hs' = [pc |-> "failed", support_extensions |-> FALSE,
              out |-> << >>, response |-> << >>, peer_id |-> << >>,
              peer_supports_extensions |-> FALSE,
              err |-> "Failed to send data", later |-> << >>]
    /\ UNCHANGED << downloadVars, sha, cmd, sess, frame, blk, magnet, benc >>

\* response = recv_exact(sock, 68) and the rest of perform_handshake
HsRecv ==
    /\ hs.pc = "sent"
    /\ \E response \in HandshakeResponses :
          hs' = IF ~response_valid(response)
                THEN [hs EXCEPT !.pc = "failed", !.response = response,
                                !.err = "Invalid handshake response"]
                ELSE [hs EXCEPT !.pc = "ok", !.response = response,
                                !.peer_supports_extensions =
                                    supports_extensions(response),
                                !.peer_id = received_peer_id(response)]
    /\ UNCHANGED << downloadVars, sha, cmd, sess, frame, blk, magnet, benc >>

\* recv_exact throws
HsRecvFail ==
    /\ hs.pc = "sent"
    /\ \E e \in { "Peer closed connection", "Failed to receive data" } :
          hs' = [hs EXCEPT !.pc = "failed", !.err = e]
    /\ UNCHANGED << downloadVars, sha, cmd, sess, frame, blk, magnet, benc >>

\* the callers after perform_handshake returned: interested (2), request
\* (6), extension handshake and metadata request (20)
HsSendLater ==
    /\ hs.pc = "ok"
    /\ Len(hs.later) < MaxSessionMessages
    /\ \E id \in { 2, 6, 20 } :
          /\ (id = 20 => hs.peer_supports_extensions)
          /\ hs' = [hs EXCEPT !.later = Append(hs.later, id)]
    /\ UNCHANGED << downloadVars, sha, cmd, sess, frame, blk, magnet, benc >>

\* closesocket(sock), after the session or in the handler of the exception
HsClose ==
    /\ hs.pc \in { "ok", "failed" }
    /\ hs' = [hs EXCEPT !.pc = "closed"]
    /\ UNCHANGED << downloadVars, sha, cmd, sess, frame, blk, magnet, benc >>

HandshakeNext ==
    \/ HsSend
    \/ HsSendFail
    \/ HsRecv
    \/ HsRecvFail
    \/ HsSendLater
    \/ HsClose

HandshakeSpec == Init /\ [][HandshakeNext]_vars

\* the response starts with 0x13 and the 19-byte literal
C15_WellFormed(response) ==
    /\ Len(response) = 68
    /\ response[1] = 19
    /\ \A k \in 1 .. 19 : response[k + 1] = ProtocolLiteral[k]

\* C15: perform_handshake succeeds only on a 68-byte response that starts
\* with 0x13 and "BitTorrent protocol"; on any other response it fails with
\* the bad-handshake error, yields no peer id, and nothing is sent on the
\* connection afterwards; on success the peer id is bytes 48..67.
C15_HandshakeValidated ==
    /\ (hs.pc # "idle" /\ hs.peer_id # << >>) =>
          /\ C15_WellFormed(hs.response)
          /\ Len(hs.peer_id) = 20
          /\ \A k \in 1 .. 20 : hs.peer_id[k] = hs.response[48 + k]
    /\ (hs.pc # "idle" /\ Len(hs.response) = 68 /\ C15_WellFormed(hs.response)) =>
          /\ hs.err = NoError
          /\ hs.peer_id # << >>
    /\ (hs.pc # "idle" /\ Len(hs.response) = 68 /\ ~C15_WellFormed(hs.response)) =>
          /\ hs.err = "Invalid handshake response"
          /\ hs.peer_id = << >>
          /\ hs.later = << >>
    /\ (hs.pc # "idle" /\ hs.later # << >>) => C15_WellFormed(hs.response)

\* a response with the right first byte and a wrong last letter was refused
C15_Witness ==
    /\ hs.pc = "closed"
    /\ hs.err = "Invalid handshake response"
    /\ hs.response[1] = 19
    /\ hs.response[20] = 76

\* a well-formed response was accepted and messages were sent afterwards
C15_WitnessAccepted ==
    /\ hs.pc = "closed" /\ hs.err = NoError
    /\ hs.peer_id = Run20(220) /\ Len(hs.later) = 2

(***************************************************************************)
(* Bencode: decode_bencoded_value and bencode_encode.  A std::string is a  *)
(* sequence of character codes; a json value is the pair of its type and   *)
(* its value: a sequence of codes, an integer, a sequence of values, or a  *)
(* set of (key, value) pairs with one pair for a key (std::map).           *)
(***************************************************************************)
MaxItems == 2

BString(s) == << "string", s >>
BInt(n) == << "int", n >>
BArray(a) == << "array", a >>
BObject(o) == << "object", o >>

TypeOf(j) == j[1]
ValueOf(j) == j[2]

npos == -1

\* encoded_value[pos], pos counted from 0; the character at size() is '\0'
CharAt(s, pos) == IF pos < Len(s) THEN s[pos + 1] ELSE 0

\* std::isdigit
isdigit(c) == c \in 48 .. 57

\* s.find(c, pos)
find(s, c, pos) ==
    IF \E k \in pos .. Len(s) - 1 : s[k + 1] = c
    THEN CHOOSE k \in pos .. Len(s) - 1 :
            /\ s[k + 1] = c
            /\ \A j \in pos .. k - 1 : s[j + 1] # c
    ELSE npos

\* s.substr(pos, count), for pos <= size
substr(s, pos, count) == SubSeq(s, pos + 1, Min(pos + count, Len(s)))

RECURSIVE atoll_digits(_, _)
\* the value of the leading decimal digits of s, after acc
atoll_digits(s, acc) ==
    IF s = << >> \/ ~isdigit(s[1]) THEN acc
    ELSE atoll_digits(Tail(s), acc * 10 + (s[1] - 48))

\* std::atoll: an optional sign and the leading digits
atoll(s) ==
    IF s # << >> /\ s[1] = 45 THEN 0 - atoll_digits(Tail(s), 0)
    ELSE IF s # << >> /\ s[1] = 43 THEN atoll_digits(Tail(s), 0)
    ELSE atoll_digits(s, 0)

RECURSIVE Digits(_)
\* the decimal digits of n >= 0
Digits(n) ==
    IF n < 10 THEN << 48 + n >>
    ELSE Append(Digits(n \div 10), 48 + (n % 10))

\* std::to_string without the sign
to_string_unsigned(n) ==
    Digits(IF n < 0 THEN 0 - n ELSE n)

\* std::to_string
to_string(n) ==
    IF n < 0 THEN << 45 >> \o Digits(0 - n) ELSE Digits(n)

\* a < b for std::string
StringLess(a, b) ==
    \E k \in 1 .. Len(b) :
        /\ \A j \in 1 .. k - 1 : j <= Len(a) /\ a[j] = b[j]
        /\ (k > Len(a) \/ (k <= Len(a) /\ a[k] < b[k]))
        /\ k - 1 <= Len(a)

RECURSIVE SortKeys(_)
\* std::sort(keys.begin(), keys.end())
SortKeys(keys) ==
    IF keys = {} THEN << >>
    ELSE LET least == CHOOSE k \in keys : \A other \in keys \ { k } : StringLess(k, other)
         IN  << least >> \o SortKeys(keys \ { least })

DecodeError(what) == [ok |-> FALSE, err |-> what]
Decoded(value, pos) == [ok |-> TRUE, v |-> value, pos |-> pos]

\* dict[key] = value
ObjectPut(o, key, value) ==
    { e \in o : e[1] # key } \cup { << key, value >> }

\* the keys of an object, and o[key]
ObjectKeys(o) == { e[1] : e \in o }
ObjectGet(o, key) == (CHOOSE e \in o : e[1] = key)[2]

RECURSIVE decode_bencoded_value(_, _)
RECURSIVE decode_list(_, _, _)
RECURSIVE decode_dict(_, _, _)

\* the loop of the list branch
decode_list(encoded_value, pos, list) ==
    IF CharAt(encoded_value, pos) # 101
    THEN LET item == decode_bencoded_value(encoded_value, pos)
         IN  IF ~item.ok THEN item
             ELSE decode_list(encoded_value, item.pos, Append(list, item.v))
    ELSE Decoded(BArray(list), pos + 1)

\* the loop of the dictionary branch
decode_dict(encoded_value, pos, dict) ==
    IF CharAt(encoded_value, pos) # 101
    THEN LET key == decode_bencoded_value(encoded_value, pos)
         IN  IF ~key.ok THEN key
             ELSE LET value == decode_bencoded_value(encoded_value, key.pos)
                  IN  IF ~value.ok THEN value
                      ELSE IF TypeOf(key.v) # "string" THEN DecodeError("json type_error")
                      ELSE decode_dict(encoded_value, value.pos,
                                       ObjectPut(dict, ValueOf(key.v), value.v))
    ELSE Decoded(BObject(dict), pos + 1)

\* decode_bencoded_value(encoded_value, pos): the value and the position
\* after it, or the exception
decode_bencoded_value(encoded_value, pos) ==
    LET c == CharAt(encoded_value, pos)
    IN  IF isdigit(c)
        THEN LET colon_index == find(encoded_value, 58, pos)
             IN  IF colon_index # npos
                 THEN LET number_string == substr(encoded_value, pos, colon_index - pos)
                          length == atoll(number_string)
                      IN  Decoded(BString(substr(encoded_value, colon_index + 1, length)),
                                  colon_index + 1 + length)
                 ELSE DecodeError("Invalid encoded value")
        ELSE IF c = 105
        THEN LET end_index == find(encoded_value, 101, pos)
             IN  IF end_index # npos
                 THEN LET number_string ==
                              substr(encoded_value, pos + 1, end_index - pos - 1)
                      IN  Decoded(BInt(atoll(number_string)), end_index + 1)
                 ELSE DecodeError("Invalid encoded integer")
        ELSE IF c = 108 THEN decode_list(encoded_value, pos + 1, << >>)
        ELSE IF c = 100 THEN decode_dict(encoded_value, pos + 1, {})
        ELSE DecodeError("Unhandled encoded value")

RECURSIVE bencode_encode(_)
RECURSIVE encode_items(_)
RECURSIVE encode_entries(_, _)

\* the loop of the array branch
encode_items(items) ==
    IF items = << >> THEN << >>
    ELSE bencode_encode(Head(items)) \o encode_items(Tail(items))

\* the loop of the object branch over the sorted keys
encode_entries(o, keys) ==
    IF keys = << >> THEN << >>
    ELSE LET key == Head(keys)
         IN  to_string(Len(key)) \o << 58 >> \o key \o bencode_encode(ObjectGet(o, key))
                 \o encode_entries(o, Tail(keys))

bencode_encode(j) ==
    IF TypeOf(j) = "string" THEN to_string(Len(ValueOf(j))) \o << 58 >> \o ValueOf(j)
    ELSE IF TypeOf(j) = "int" THEN << 105 >> \o to_string(ValueOf(j)) \o << 101 >>
    ELSE IF TypeOf(j) = "array" THEN << 108 >> \o encode_items(ValueOf(j)) \o << 101 >>
    ELSE << 100 >> \o encode_entries(ValueOf(j), SortKeys(ObjectKeys(ValueOf(j))))
             \o << 101 >>

(***************************************************************************)
(* The codec on bounded sets of values and of well-formed inputs.          *)
(***************************************************************************)
BencStrings ==
    { << >>, << 97 >>, << 101 >>, << 58 >>, << 49, 58, 97 >>, << 105, 49, 101 >>,
      << 0, 255 >>, << 48, 49, 50, 51, 52, 53, 54, 55, 56, 57 >> }

BencInts == { 0, 1, -1, 10, -42, 2147483647 }

BencKeys == { << >>, << 97 >>, << 98 >>, << 97, 98 >>, << 66 >> }

BencAtoms == { BString(s) : s \in BencStrings } \cup { BInt(n) : n \in BencInts }

\* the values that occur inside arrays and dictionaries
BencInner ==
    { BString(<< >>), BString(<< 101 >>), BString(<< 49, 58, 97 >>), BInt(-1), BInt(10) }

ArraysOver(values) == { BArray(a) : a \in UNION { [1 .. n -> values] : n \in 0 .. MaxItems } }

ObjectsOver(values) ==
    UNION { { BObject({ << k, f[k] >> : k \in keys }) : f \in [keys -> values] } :
               keys \in { S \in SUBSET BencKeys : Cardinality(S) <= MaxItems } }

BencNested ==
    { BArray(<< >>), BArray(<< BInt(-1), BString(<< 101 >>) >>),
      BObject({}), BObject({ << << 97 >>, BInt(10) >>, << << 66 >>, BInt(10) >> }),
      BString(<< 97 >>), BInt(0) }

BencValues ==
    BencAtoms \cup ArraysOver(BencInner) \cup ObjectsOver(BencInner)
        \cup ArraysOver(BencNested) \cup ObjectsOver(BencNested)

BencInputs ==
    {
      \* 0:
      << 48, 58 >>,
      \* 1:a
      << 49, 58, 97 >>,
      \* 10:0123456789
      << 49, 48, 58, 48, 49, 50, 51, 52, 53, 54, 55, 56, 57 >>,
      \* 3:i1e
      << 51, 58, 105, 49, 101 >>,
      \* 2:1:
      << 50, 58, 49, 58 >>,
      \* i0e
      << 105, 48, 101 >>,
      \* i7e
      << 105, 55, 101 >>,
      \* i-42e
      << 105, 45, 52, 50, 101 >>,
      \* i2147483647e
      << 105, 50, 49, 52, 55, 52, 56, 51, 54, 52, 55, 101 >>,
      \* le
      << 108, 101 >>,
      \* de
      << 100, 101 >>,
      \* l1:ai1ee
      << 108, 49, 58, 97, 105, 49, 101, 101 >>,
      \* li1ei2ei3ee
      << 108, 105, 49, 101, 105, 50, 101, 105, 51, 101, 101 >>,
      \* ll1:aeli-1eee
      << 108, 108, 49, 58, 97, 101, 108, 105, 45, 49, 101, 101, 101 >>,
      \* d1:ai1e1:b2:xye
      << 100, 49, 58, 97, 105, 49, 101, 49, 58, 98, 50, 58, 120, 121, 101
        >>,
      \* d0:le1:ade2:abl1:eee
      << 100, 48, 58, 108, 101, 49, 58, 97, 100, 101, 50, 58, 97, 98, 108,
        49, 58, 101, 101, 101 >>,
      \* d1:Bi1e1:ai2ee
      << 100, 49, 58, 66, 105, 49, 101, 49, 58, 97, 105, 50, 101, 101 >>,
      \* d4:infod6:lengthi5e12:piece lengthi2eee
      << 100, 52, 58, 105, 110, 102, 111, 100, 54, 58, 108, 101, 110, 103,
        116, 104, 105, 53, 101, 49, 50, 58, 112, 105, 101, 99, 101, 32, 108,
        101, 110, 103, 116, 104, 105, 50, 101, 101, 101 >> }

\* encoded = bencode_encode(v)
BencEncode ==
    /\ benc.pc = "idle"
    /\ \E v \in BencValues :
          benc' = [pc |-> "encoded", v |-> v, b |-> bencode_encode(v)]
    /\ UNCHANGED << downloadVars, sha, cmd, sess, frame, blk, hs, magnet >>

\* decode_bencoded_value(encoded, pos) with pos = 0, on the encoding
BencDecodeBack ==
    /\ benc.pc = "encoded"
    /\ benc' = [pc |-> "decoded_back", v |-> benc.v, b |-> benc.b,
                res |-> decode_bencoded_value(benc.b, 0)]
    /\ UNCHANGED << downloadVars, sha, cmd, sess, frame, blk, hs, magnet >>

\* decode_bencoded_value(input, pos) with pos = 0, on an input
BencDecode ==
    /\ benc.pc = "idle"
    /\ \E b \in BencInputs :
          benc' = [pc |-> "decoded", b |-> b, res |-> decode_bencoded_value(b, 0)]
    /\ UNCHANGED << downloadVars, sha, cmd, sess, frame, blk, hs, magnet >>

\* bencode_encode of the decoded value
BencEncodeBack ==
    /\ benc.pc = "decoded"
    /\ benc.res.ok
    /\ benc' = [pc |-> "encoded_back", b |-> benc.b, res |-> benc.res,
                out |-> bencode_encode(benc.res.v)]
    /\ UNCHANGED << downloadVars, sha, cmd, sess, frame, blk, hs, magnet >>

\* inputs that are not well-formed Bencode
BencMalformed ==
    {
      \* 2ab:cd: a length prefix without its colon, a colon later
      << 50, 97, 98, 58, 99, 100 >>,
      \* l2ab1:cee: the same inside a list
      << 108, 50, 97, 98, 49, 58, 99, 101, 101 >>,
      \* 5: a length prefix and nothing else
      << 53 >>,
      \* l12e: a length prefix without a colon in a list
      << 108, 49, 50, 101 >>,
      \* i5: an integer without its e
      << 105, 53 >>,
      \* li53:abee: an integer without its e in a list, an e later
      << 108, 105, 53, 51, 58, 97, 98, 101, 101 >>,
      \* l: a list that ends before its e
      << 108 >>,
      \* li1e: a list with an item that ends before its e
      << 108, 105, 49, 101 >>,
      \* d1:a: a dictionary that ends after a key
      << 100, 49, 58, 97 >>,
      \* d1:ai1e: a dictionary that ends before its e
      << 100, 49, 58, 97, 105, 49, 101 >>,
      \* di1e1:ae: a dictionary with an integer as key
      << 100, 105, 49, 101, 49, 58, 97, 101 >>,
      \* dle1:ae: a dictionary with a list as key
      << 100, 108, 101, 49, 58, 97, 101 >>,
      \* 5:ab: a string shorter than its length prefix
      << 53, 58, 97, 98 >> }

\* decode_bencoded_value(input, pos) with pos = 0, on a malformed input
BencDecodeMalformed ==
    /\ benc.pc = "idle"
    /\ \E b \in BencMalformed :
          benc' = [pc |-> "decoded_malformed", b |-> b,
                   res |-> decode_bencoded_value(b, 0)]
    /\ UNCHANGED << downloadVars, sha, cmd, sess, frame, blk, hs, magnet >>

BencodeNext ==
    \/ BencEncode
    \/ BencDecodeBack
    \/ BencDecode
    \/ BencEncodeBack
    \/ BencDecodeMalformed

BencodeSpec == Init /\ [][BencodeNext]_vars

\* C20: decode(encode(v)) = v for every value v, and encode(decode(b)) = b
\* for every well-formed input b with canonical key order.
C20_BencodeRoundTrip ==
    /\ benc.pc = "decoded_back" =>
          /\ benc.res.ok
          /\ benc.res.v = benc.v
          /\ benc.res.pos = Len(benc.b)
    /\ benc.pc = "decoded" => benc.res.ok /\ benc.res.pos = Len(benc.b)
    /\ benc.pc = "encoded_back" => benc.out = benc.b

\* a dictionary with two keys and a negative integer came back from its
\* encoding
C20_Witness ==
    /\ benc.pc = "decoded_back"
    /\ benc.v = BObject({ << << 66 >>, BInt(-1) >>, << << 97, 98 >>, BString(<< 101 >>) >> })
    /\ benc.b = << 100, 49, 58, 66, 105, 45, 49, 101, 50, 58, 97, 98, 49, 58, 101, 101 >>

\* a nested input was decoded and encoded again
C20_WitnessInput ==
    /\ benc.pc = "encoded_back"
    /\ TypeOf(benc.res.v) = "object"
    /\ Len(benc.b) > 30

(***************************************************************************)
(* magnet_info: the session with the first peer, the check of the received *)
(* metadata against the info hash of the magnet link, and the output.      *)
(* SHA1::hash is Digest, as for the pieces.                                *)
(***************************************************************************)
\* d6:lengthi5e4:name1:a12:piece lengthi2e6:pieces3:abce
MetaInfo ==
    << 100, 54, 58, 108, 101, 110, 103, 116, 104, 105, 53, 101, 52, 58,
    110, 97, 109, 101, 49, 58, 97, 49, 50, 58, 112, 105, 101, 99, 101, 32,
    108, 101, 110, 103, 116, 104, 105, 50, 101, 54, 58, 112, 105, 101, 99,
    101, 115, 51, 58, 97, 98, 99, 101 >>

\* d6:lengthi7e4:name1:b12:piece lengthi4e6:pieces2:xye
MetaOther ==
    << 100, 54, 58, 108, 101, 110, 103, 116, 104, 105, 55, 101, 52, 58,
    110, 97, 109, 101, 49, 58, 98, 49, 50, 58, 112, 105, 101, 99, 101, 32,
    108, 101, 110, 103, 116, 104, 105, 52, 101, 54, 58, 112, 105, 101, 99,
    101, 115, 50, 58, 120, 121, 101 >>

\* d4:name1:ae
MetaNoLength ==
    << 100, 52, 58, 110, 97, 109, 101, 49, 58, 97, 101 >>

\* i5e
MetaInteger ==
    << 105, 53, 101 >>

\* xd
MetaGarbage ==
    << 120, 100 >>

\* d6:lengthi5
MetaTruncated ==
    << 100, 54, 58, 108, 101, 110, 103, 116, 104, 105, 53 >>

\* length
KeyLength ==
    << 108, 101, 110, 103, 116, 104 >>

\* piece length
KeyPieceLength ==
    << 112, 105, 101, 99, 101, 32, 108, 101, 110, 103, 116, 104 >>

\* pieces
KeyPieces ==
    << 112, 105, 101, 99, 101, 115 >>

\* what recv_metadata_data may return
MetadataCandidates ==
    { MetaInfo, MetaOther, MetaNoLength, MetaInteger, MetaGarbage, MetaTruncated, << >> }

\* the info hashes of magnet links
MagnetInfoHashes == { 0, 1 }

\* the ut_metadata ids of peers
PeerMetadataIds == { 1, 2, 3 }

NoInfo == << "null", << >> >>

HexDigits == << 48, 49, 50, 51, 52, 53, 54, 55, 56, 57, 97, 98, 99, 100, 101, 102 >>

RECURSIVE to_hex(_)
to_hex(binary) ==
    IF binary = << >> THEN << >>
    ELSE << HexDigits[(Head(binary) \div 16) + 1], HexDigits[(Head(binary) % 16) + 1] >>
             \o to_hex(Tail(binary))

RECURSIVE PieceHashLines(_, _)
\* the lines of the loop over pieces.substr(i, 20), from i on
PieceHashLines(pieces, i) ==
    IF i < Len(pieces)
    THEN << << "Piece Hash", to_hex(substr(pieces, i, 20)) >> >>
             \o PieceHashLines(pieces, i + 20)
    ELSE << >>

\* info[key] is there and has the type t
HasField(info, key, t) ==
    /\ TypeOf(info) = "object"
    /\ key \in ObjectKeys(ValueOf(info))
    /\ TypeOf(ObjectGet(ValueOf(info), key)) = t

Field(info, key) == ValueOf(ObjectGet(ValueOf(info), key))

\* the comparison of the hashes that never finds a difference
metadata_hash_never_differs(computed_hash, info_hash) ==
    FALSE

\* computed_hash != info_hash
metadata_hash_differs(computed_hash, info_hash) ==
    computed_hash # info_hash

\* tcp_connect to the first peer of the magnet link's tracker
MagnetConnect ==
    /\ magnet.pc = "idle"
    /\ \E info_hash \in MagnetInfoHashes :
          magnet' = [pc |-> "handshake", info_hash |-> info_hash,
                     peer_metadata_id |-> 0, closed |-> FALSE,
                     received |-> FALSE, metadata |-> << >>,
                     info |-> NoInfo, err |-> NoError, stdout |-> << >>]
    /\ UNCHANGED << downloadVars, sha, cmd, sess, frame, blk, hs, benc >>

\* perform_handshake with the extension bit, recv_bitfield_payload, and the
\* test of peer_supports_extensions
MagnetHandshake ==
    /\ magnet.pc = "handshake"
    /\ \E peer_supports_extensions \in BOOLEAN :
          magnet' = IF ~peer_supports_extensions
                    THEN [magnet EXCEPT !.pc = "failed", !.closed = TRUE,
                                        !.err = "Peer does not support extensions"]
                    ELSE [magnet EXCEPT !.pc = "ext_handshake"]
    /\ UNCHANGED << downloadVars, sha, cmd, sess, frame, blk, hs, benc >>

\* send_extension_handshake, recv_extension_handshake, peer_metadata_id
MagnetExtHandshake ==
    /\ magnet.pc = "ext_handshake"
    /\ \E id \in PeerMetadataIds :
          magnet' = [magnet EXCEPT !.pc = "request", !.peer_metadata_id = id]
    /\ UNCHANGED << downloadVars, sha, cmd, sess, frame, blk, hs, benc >>

\* send_metadata_request(sock, peer_metadata_id, 0)
MagnetRequest ==
    /\ magnet.pc = "request"
    /\ magnet' = [magnet EXCEPT !.pc = "recv"]
    /\ UNCHANGED << downloadVars, sha, cmd, sess, frame, blk, hs, benc >>

\* metadata = recv_metadata_data(sock); closesocket(sock)
MagnetRecvMetadata ==
    /\ magnet.pc = "recv"
    /\ \E metadata \in MetadataCandidates :
          magnet' = [magnet EXCEPT !.pc = "verify", !.received = TRUE,
                                   !.metadata = metadata, !.closed = TRUE]
    /\ UNCHANGED << downloadVars, sha, cmd, sess, frame, blk, hs, benc >>

\* a send or a receive of the session throws
MagnetSessionFail ==
    /\ magnet.pc \in { "handshake", "ext_handshake", "request", "recv" }
    /\ \E e \in { "Peer closed connection", "Failed to receive data",
                  "Failed to send data", "Invalid handshake response" } :
          /\ (e = "Invalid handshake response" => magnet.pc = "handshake")
          /\ (e = "Failed to send data" => magnet.pc # "recv")
          /\ magnet' = [magnet EXCEPT !.pc = "failed", !.err = e]
    /\ UNCHANGED << downloadVars, sha, cmd, sess, frame, blk, hs, benc >>

\* the comparison of SHA1::hash(metadata) with info_hash, and
\* info = decode_bencoded_value(metadata)
MagnetVerify ==
    /\ magnet.pc = "verify"
    /\ magnet' =
          IF metadata_hash_differs(Digest(magnet.metadata), magnet.info_hash)
          THEN [magnet EXCEPT !.pc = "failed", !.err = "Metadata hash mismatch"]
          ELSE LET r == decode_bencoded_value(magnet.metadata, 0)
               IN  IF ~r.ok THEN [magnet EXCEPT !.pc = "failed", !.err = r.err]
                   ELSE [magnet EXCEPT !.pc = "decoded", !.info = r.v]
    /\ UNCHANGED << downloadVars, sha, cmd, sess, frame, blk, hs, benc >>

\* the output of the info fields; a field that is missing or has another
\* type ends the command after the lines before it (whole lines only)
MagnetPrint ==
    /\ magnet.pc = "decoded"
    /\ LET info == magnet.info
           l1 == << << "Tracker URL", "tracker" >> >>
           l3 == l1 \o << << "Length", Field(info, KeyLength) >>,
                          << "Info Hash", magnet.info_hash >> >>
           l5 == l3 \o << << "Piece Length", Field(info, KeyPieceLength) >>,
                          << "Piece Hashes:", "" >> >>
       IN  magnet' =
              IF ~HasField(info, KeyLength, "int")
              THEN [magnet EXCEPT !.pc = "failed", !.err = "json type_error",
                                  !.stdout = l1]
              ELSE IF ~HasField(info, KeyPieceLength, "int")
              THEN [magnet EXCEPT !.pc = "failed", !.err = "json type_error",
                                  !.stdout = l3]
              ELSE IF ~HasField(info, KeyPieces, "string")
              THEN [magnet EXCEPT !.pc = "failed", !.err = "json type_error",
                                  !.stdout = l5]
              ELSE [magnet EXCEPT !.pc = "printed",
                                  !.stdout = l5 \o PieceHashLines(Field(info, KeyPieces), 0)]
    /\ UNCHANGED << downloadVars, sha, cmd, sess, frame, blk, hs, benc >>

MagnetNext ==
    \/ MagnetConnect
    \/ MagnetHandshake
    \/ MagnetExtHandshake
    \/ MagnetRequest
    \/ MagnetRecvMetadata
    \/ MagnetSessionFail
    \/ MagnetVerify
    \/ MagnetPrint

MagnetSpec == Init /\ [][MagnetNext]_vars

\* C19: when the hash of the received metadata differs from the info hash
\* of the magnet link, magnet_info fails with the metadata hash error,
\* prints none of the info fields and never decodes the metadata.
C19_MetadataVerified ==
    /\ (magnet.pc \in { "failed", "decoded", "printed" } /\ magnet.received
            /\ Digest(magnet.metadata) # magnet.info_hash) =>
          /\ magnet.pc = "failed"
          /\ magnet.err = "Metadata hash mismatch"
          /\ magnet.stdout = << >>
          /\ magnet.info = NoInfo
    /\ (magnet.pc # "idle" /\ (magnet.info # NoInfo \/ magnet.stdout # << >>)) =>
          /\ magnet.received
          /\ Digest(magnet.metadata) = magnet.info_hash

\* a well-formed info dictionary with another hash was refused
C19_Witness ==
    /\ magnet.pc = "failed"
    /\ magnet.err = "Metadata hash mismatch"
    /\ magnet.metadata = MetaInfo
    /\ magnet.info_hash = 0

\* a verified info dictionary was printed
C19_WitnessPrinted ==
    /\ magnet.pc = "printed"
    /\ Len(magnet.stdout) = 6
    /\ magnet.stdout[6] = << "Piece Hash", << 54, 49, 54, 50, 54, 51 >> >>

\* C21: the decoder fails, and returns no value, on every input in which a
\* length prefix lacks its colon, an integer lacks its 'e', the input ends
\* before the 'e' of a list or dictionary, or a dictionary key is not a
\* string, also when a ':' or an 'e' occurs later in the input.
C21_MalformedRejected ==
    benc.pc = "decoded_malformed" => ~benc.res.ok

(***************************************************************************)
(* main (download_piece): one session with the first peer, the piece is    *)
(* fetched by download_piece_from_peer, compared with its digest and       *)
(* written to the output path.                                             *)
(***************************************************************************)
\* what is at the output path before the command runs
OldFiles ==
    { [status |-> "absent", bytes |-> << >>],
      [status |-> "old", bytes |-> << 1, 1, 1 >>] }

\* the calls of the session in their order
SessionCalls == << "connect", "handshake", "bitfield", "interested", "unchoke", "fetch" >>

CallAfter(pc) == SessionCalls[(CHOOSE k \in 1 .. 5 : SessionCalls[k] = pc) + 1]

\* the command is started for piece_index; an index past the last piece
\* ends it before any connection is made
PieceCmdStart ==
    /\ cmd.pc = "idle"
    /\ \E piece_index \in 0 .. NumPieces, old \in OldFiles :
          cmd' = [pc |-> IF piece_index >= NumPieces THEN "failed" ELSE "connect",
                  piece_index |-> piece_index, sock |-> INVALID_SOCKET,
                  piece_data |-> << >>, old_file |-> old, out_file |-> old,
                  err |-> IF piece_index >= NumPieces THEN "piece_index out of range"
                          ELSE NoError]
    /\ UNCHANGED << downloadVars, componentVars, sha, sess >>

\* tcp_connect, perform_handshake, recv_bitfield_payload, send_peer_message
\* (interested) or wait_for_unchoke returns
PieceCmdCall ==
    /\ cmd.pc \in { "connect", "handshake", "bitfield", "interested", "unchoke" }
    /\ cmd' = [cmd EXCEPT !.pc = CallAfter(cmd.pc), !.sock = 1]
    /\ UNCHANGED << downloadVars, componentVars, sha, sess >>

\* a call of the session throws: closesocket in the handler, rethrow
PieceCmdPeerError ==
    /\ \E e \in ErrorsAt(cmd.pc) :
          cmd' = [cmd EXCEPT !.pc = "failed", !.err = e, !.sock = INVALID_SOCKET]
    /\ UNCHANGED << downloadVars, componentVars, sha, sess >>

\* piece_data = download_piece_from_peer(sock, piece_index, piece_size)
PieceCmdDownload ==
    /\ cmd.pc = "fetch"
    /\ \E d \in PieceDatas(piece_size(cmd.piece_index)) :
          cmd' = [cmd EXCEPT !.pc = "verify", !.piece_data = d]
    /\ UNCHANGED << downloadVars, componentVars, sha, sess >>

\* the piece is passed on without the comparison
PieceCmdVerifySkipped ==
    /\ cmd.pc = "verify"
    /\ cmd' = [cmd EXCEPT !.pc = "open"]
    /\ UNCHANGED << downloadVars, componentVars, sha, sess >>

\* actual_hash = SHA1::hash(piece_data); if (actual_hash != expected_piece_hash)
PieceCmdVerify ==
    /\ cmd.pc = "verify"
    /\ cmd' = IF Digest(cmd.piece_data) # expected_piece_hash(cmd.piece_index)
              THEN [cmd EXCEPT !.pc = "failed", !.err = "Piece hash mismatch",
                               !.sock = INVALID_SOCKET]
              ELSE [cmd EXCEPT !.pc = "open"]
    /\ UNCHANGED << downloadVars, componentVars, sha, sess >>

\* std::ofstream out(output_path, std::ios::binary); if (!out) throw
PieceCmdOpen ==
    /\ cmd.pc = "open"
    /\ \E opened \in BOOLEAN :
          cmd' = IF opened
                 THEN [cmd EXCEPT !.pc = "write",
                                  !.out_file = [status |-> "opened", bytes |-> << >>]]
                 ELSE [cmd EXCEPT !.pc = "failed", !.err = "Failed to open output file",
                                  !.sock = INVALID_SOCKET]
    /\ UNCHANGED << downloadVars, componentVars, sha, sess >>

\* out.write(piece_data); out.close(); closesocket(sock)
PieceCmdWrite ==
    /\ cmd.pc = "write"
    /\ cmd' = [cmd EXCEPT !.pc = "done", !.sock = INVALID_SOCKET,
                          !.out_file = [status |-> "written", bytes |-> cmd.piece_data]]
    /\ UNCHANGED << downloadVars, componentVars, sha, sess >>

PieceCmdNext ==
    \/ PieceCmdStart
    \/ PieceCmdCall
    \/ PieceCmdPeerError
    \/ PieceCmdDownload
    \/ PieceCmdVerify
    \/ PieceCmdOpen
    \/ PieceCmdWrite

PieceCmdSpec == Init /\ [][PieceCmdNext]_vars

\* the piece of the torrent's file with this index
C22_Piece(i) == [k \in 1 .. Min(PieceLength, TotalLength - i * PieceLength) |->
                    FileData[i * PieceLength + k]]

\* C22: download_piece touches the output path only when the whole piece
\* has been received and its digest is the expected one; after a digest
\* mismatch or a peer error the path holds what it held before and the
\* command has ended with an error.
C22_VerifiedBeforeWrite ==
    /\ (cmd.pc # "idle" /\ cmd.out_file # cmd.old_file) =>
          /\ Len(cmd.piece_data) = Len(C22_Piece(cmd.piece_index))
          /\ Digest(cmd.piece_data) = Digest(C22_Piece(cmd.piece_index))
          /\ cmd.err = NoError
    /\ (cmd.pc = "done") => cmd.out_file.bytes = cmd.piece_data
    /\ (cmd.pc \in { "failed", "done" } /\ cmd.piece_data # << >>
            /\ Digest(cmd.piece_data) # Digest(C22_Piece(cmd.piece_index))) =>
          /\ cmd.pc = "failed"
          /\ cmd.err = "Piece hash mismatch"
          /\ cmd.out_file = cmd.old_file
    /\ (cmd.pc = "failed" /\ cmd.err # "Failed to open output file") =>
          cmd.out_file = cmd.old_file

\* a piece with another digest was refused and the old file is still there
C22_Witness ==
    /\ cmd.pc = "failed" /\ cmd.err = "Piece hash mismatch"
    /\ cmd.old_file.status = "old" /\ cmd.out_file = cmd.old_file
    /\ Len(cmd.piece_data) = PieceLength

(***************************************************************************)
(* main (magnet_handshake): handshake with the extension bit, extension    *)
(* handshake when the peer supports it, and the two lines of output.       *)
(***************************************************************************)
\* the process ends through an exception that nothing catches
ExitByException(c, what) ==
    [c EXCEPT !.pc = "exit", !.err = what, !.exit_code = 134]

\* tcp_connect, perform_handshake(..., true, &peer_supports_extensions)
MagnetHsHandshake ==
    /\ cmd.pc = "idle"
    /\ \E response \in HandshakeResponses :
          cmd' = IF ~response_valid(response)
                 THEN [pc |-> "exit", response |-> response, received_peer_id |-> << >>,
                       peer_supports_extensions |-> FALSE, stdout |-> << >>,
                       err |-> "Invalid handshake response", exit_code |-> 134]
                 ELSE [pc |-> "bitfield", response |-> response,
                       received_peer_id |-> received_peer_id(response),
                       peer_supports_extensions |-> supports_extensions(response),
                       stdout |-> << >>, err |-> NoError, exit_code |-> -1]
    /\ UNCHANGED << downloadVars, componentVars, sha, sess >>

\* recv_bitfield_payload returns
MagnetHsBitfield ==
    /\ cmd.pc = "bitfield"
    /\ cmd' = [cmd EXCEPT !.pc = IF cmd.peer_supports_extensions THEN "extension"
                                 ELSE "close"]
    /\ UNCHANGED << downloadVars, componentVars, sha, sess >>

\* send_extension_handshake, recv_extension_handshake, the two lines
MagnetHsExtension ==
    /\ cmd.pc = "extension"
    /\ \E peer_metadata_id \in PeerMetadataIds :
          cmd' = [cmd EXCEPT !.pc = "close",
                             !.stdout = << << "Peer ID", to_hex(cmd.received_peer_id) >>,
                                           << "Peer Metadata Extension ID",
                                              peer_metadata_id >> >>]
    /\ UNCHANGED << downloadVars, componentVars, sha, sess >>

\* a receive or a send throws, or the peer's dictionary has no ut_metadata
MagnetHsFail ==
    /\ cmd.pc \in { "bitfield", "extension" }
    /\ \E e \in { "Peer closed connection", "Failed to send data", "json type_error" } :
          /\ (e # "Peer closed connection" => cmd.pc = "extension")
          /\ cmd' = ExitByException(cmd, e)
    /\ UNCHANGED << downloadVars, componentVars, sha, sess >>

\* closesocket(sock), and main returns 0
MagnetHsClose ==
    /\ cmd.pc = "close"
    /\ cmd' = [cmd EXCEPT !.pc = "exit", !.exit_code = 0]
    /\ UNCHANGED << downloadVars, componentVars, sha, sess >>

MagnetHsNext ==
    \/ MagnetHsHandshake
    \/ MagnetHsBitfield
    \/ MagnetHsExtension
    \/ MagnetHsFail
    \/ MagnetHsClose

MagnetHsSpec == Init /\ [][MagnetHsNext]_vars

\* C23: when magnet_handshake exits with code 0 it has printed the Peer ID
\* line and the Peer Metadata Extension ID line; a peer without extension
\* support does not lead to a silent success.
C23_SuccessPrintsBoth ==
    (cmd.pc = "exit" /\ cmd.exit_code = 0) =>
        /\ Len(cmd.stdout) = 2
        /\ cmd.stdout[1][1] = "Peer ID"
        /\ cmd.stdout[2][1] = "Peer Metadata Extension ID"

(***************************************************************************)
(* class SHA1.  A uint32_t is the pair << h, l >> of its upper and lower   *)
(* 16 bits, so that every operation is computed on numbers below 2^31.     *)
(***************************************************************************)
MaxMessage == 3

RECURSIVE BitAnd(_, _)
\* x & y
BitAnd(x, y) ==
    IF x = 0 \/ y = 0 THEN 0
    ELSE (x % 2) * (y % 2) + 2 * BitAnd(x \div 2, y \div 2)

RECURSIVE BitXor(_, _)
\* x ^ y
BitXor(x, y) ==
    IF x = 0 THEN y
    ELSE IF y = 0 THEN x
    ELSE (((x % 2) + (y % 2)) % 2) + 2 * BitXor(x \div 2, y \div 2)

\* u & v, u ^ v, u | v on uint32_t
WordAnd(u, v) == << BitAnd(u[1], v[1]), BitAnd(u[2], v[2]) >>
WordXor(u, v) == << BitXor(u[1], v[1]), BitXor(u[2], v[2]) >>
WordOr(u, v) ==
    << u[1] + v[1] - BitAnd(u[1], v[1]), u[2] + v[2] - BitAnd(u[2], v[2]) >>

\* u + v on uint32_t: the sum modulo 2^32
WordAdd(u, v) ==
    LET l == u[2] + v[2]
        h == u[1] + v[1] + (l \div 65536)
    IN  << h % 65536, l % 65536 >>

Pow2(n) == 2 ^ n

\* value << bits, without the bits that value >> (32 - bits) brings back
rol_shift_only(value, bits) ==
    LET v == IF bits >= 16 THEN << value[2], 0 >> ELSE value
        n == IF bits >= 16 THEN bits - 16 ELSE bits
    IN  << ((v[1] * Pow2(n)) % 65536) + (v[2] \div Pow2(16 - n)),
           (v[2] * Pow2(n)) % 65536 >>

\* (value << bits) | (value >> (32 - bits)), for 0 < bits < 32
rol(value, bits) ==
    LET v == IF bits >= 16 THEN << value[2], value[1] >> ELSE value
        n == IF bits >= 16 THEN bits - 16 ELSE bits
    IN  << ((v[1] * Pow2(n)) % 65536) + (v[2] \div Pow2(16 - n)),
           ((v[2] * Pow2(n)) % 65536) + (v[1] \div Pow2(16 - n)) >>

\* reset(): state[0..4] and count[0..1]; buffer holds the bytes copied
\* into it so far
SHA1_reset ==
    [state |-> << << 26437, 8961 >>, << 61389, 43913 >>, << 39098, 56574 >>,
                  << 4146, 21622 >>, << 50130, 57840 >> >>,
     count |-> << 0, 0 >>,
     buffer |-> << >>]

\* SHA1::blk(block, i)
block_word(block, i) ==
    rol(WordXor(WordXor(WordXor(block[(i + 13) % 16], block[(i + 8) % 16]),
                        block[(i + 2) % 16]), block[i]), 1)

\* the constant a round adds
RoundConstant(kind) ==
    CASE kind \in { "R0", "R1" } -> << 23170, 31129 >>
      [] kind = "R2" -> << 28377, 60321 >>
      [] kind = "R3" -> << 36635, 48348 >>
      [] kind = "R4" -> << 51810, 49622 >>

\* the function of w, x, y a round adds
RoundFunction(kind, w, x, y) ==
    CASE kind \in { "R0", "R1" } -> WordXor(WordAnd(w, WordXor(x, y)), y)
      [] kind \in { "R2", "R4" } -> WordXor(WordXor(w, x), y)
      [] kind = "R3" -> WordOr(WordAnd(WordOr(w, x), y), WordAnd(w, x))

\* R0 .. R4 on the registers r and the block b, for the arguments of call;
\* k counts the calls done
Round(acc, call) ==
    LET kind == call[1]
        v == call[2]
        w == call[3]
        x == call[4]
        y == call[5]
        z == call[6]
        i == call[7]
        b == IF kind = "R0" THEN acc.b
             ELSE [acc.b EXCEPT ![i] = block_word(acc.b, i)]
        r == acc.r
        sum == WordAdd(WordAdd(WordAdd(WordAdd(r[z], RoundFunction(kind, r[w], r[x], r[y])),
                                       b[i]), RoundConstant(kind)), rol(r[v], 5))
    IN  [r |-> [r EXCEPT ![z] = sum, ![w] = rol(r[w], 30)], b |-> b, k |-> acc.k + 1]

\* the calls of transform, in their order
TransformCalls ==
    <<
      << "R0", "a", "b", "c", "d", "e", 0 >>, << "R0", "e", "a", "b", "c", "d", 1 >>,
      << "R0", "d", "e", "a", "b", "c", 2 >>, << "R0", "c", "d", "e", "a", "b", 3 >>,
      << "R0", "b", "c", "d", "e", "a", 4 >>, << "R0", "a", "b", "c", "d", "e", 5 >>,
      << "R0", "e", "a", "b", "c", "d", 6 >>, << "R0", "d", "e", "a", "b", "c", 7 >>,
      << "R0", "c", "d", "e", "a", "b", 8 >>, << "R0", "b", "c", "d", "e", "a", 9 >>,
      << "R0", "a", "b", "c", "d", "e", 10 >>, << "R0", "e", "a", "b", "c", "d", 11 >>,
      << "R0", "d", "e", "a", "b", "c", 12 >>, << "R0", "c", "d", "e", "a", "b", 13 >>,
      << "R0", "b", "c", "d", "e", "a", 14 >>, << "R0", "a", "b", "c", "d", "e", 15 >>,
      << "R1", "e", "a", "b", "c", "d", 0 >>, << "R1", "d", "e", "a", "b", "c", 1 >>,
      << "R1", "c", "d", "e", "a", "b", 2 >>, << "R1", "b", "c", "d", "e", "a", 3 >>,
      << "R2", "a", "b", "c", "d", "e", 4 >>, << "R2", "e", "a", "b", "c", "d", 5 >>,
      << "R2", "d", "e", "a", "b", "c", 6 >>, << "R2", "c", "d", "e", "a", "b", 7 >>,
      << "R2", "b", "c", "d", "e", "a", 8 >>, << "R2", "a", "b", "c", "d", "e", 9 >>,
      << "R2", "e", "a", "b", "c", "d", 10 >>, << "R2", "d", "e", "a", "b", "c", 11 >>,
      << "R2", "c", "d", "e", "a", "b", 12 >>, << "R2", "b", "c", "d", "e", "a", 13 >>,
      << "R2", "a", "b", "c", "d", "e", 14 >>, << "R2", "e", "a", "b", "c", "d", 15 >>,
      << "R2", "d", "e", "a", "b", "c", 0 >>, << "R2", "c", "d", "e", "a", "b", 1 >>,
      << "R2", "b", "c", "d", "e", "a", 2 >>, << "R2", "a", "b", "c", "d", "e", 3 >>,
      << "R2", "e", "a", "b", "c", "d", 4 >>, << "R2", "d", "e", "a", "b", "c", 5 >>,
      << "R2", "c", "d", "e", "a", "b", 6 >>, << "R2", "b", "c", "d", "e", "a", 7 >>,
      << "R3", "a", "b", "c", "d", "e", 8 >>, << "R3", "e", "a", "b", "c", "d", 9 >>,
      << "R3", "d", "e", "a", "b", "c", 10 >>, << "R3", "c", "d", "e", "a", "b", 11 >>,
      << "R3", "b", "c", "d", "e", "a", 12 >>, << "R3", "a", "b", "c", "d", "e", 13 >>,
      << "R3", "e", "a", "b", "c", "d", 14 >>, << "R3", "d", "e", "a", "b", "c", 15 >>,
      << "R3", "c", "d", "e", "a", "b", 0 >>, << "R3", "b", "c", "d", "e", "a", 1 >>,
      << "R3", "a", "b", "c", "d", "e", 2 >>, << "R3", "e", "a", "b", "c", "d", 3 >>,
      << "R3", "d", "e", "a", "b", "c", 4 >>, << "R3", "c", "d", "e", "a", "b", 5 >>,
      << "R3", "b", "c", "d", "e", "a", 6 >>, << "R3", "a", "b", "c", "d", "e", 7 >>,
      << "R3", "e", "a", "b", "c", "d", 8 >>, << "R3", "d", "e", "a", "b", "c", 9 >>,
      << "R3", "c", "d", "e", "a", "b", 10 >>, << "R3", "b", "c", "d", "e", "a", 11 >>,
      << "R4", "a", "b", "c", "d", "e", 12 >>, << "R4", "e", "a", "b", "c", "d", 13 >>,
      << "R4", "d", "e", "a", "b", "c", 14 >>, << "R4", "c", "d", "e", "a", "b", 15 >>,
      << "R4", "b", "c", "d", "e", "a", 0 >>, << "R4", "a", "b", "c", "d", "e", 1 >>,
      << "R4", "e", "a", "b", "c", "d", 2 >>, << "R4", "d", "e", "a", "b", "c", 3 >>,
      << "R4", "c", "d", "e", "a", "b", 4 >>, << "R4", "b", "c", "d", "e", "a", 5 >>,
      << "R4", "a", "b", "c", "d", "e", 6 >>, << "R4", "e", "a", "b", "c", "d", 7 >>,
      << "R4", "d", "e", "a", "b", "c", 8 >>, << "R4", "c", "d", "e", "a", "b", 9 >>,
      << "R4", "b", "c", "d", "e", "a", 10 >>, << "R4", "a", "b", "c", "d", "e", 11 >>,
      << "R4", "e", "a", "b", "c", "d", 12 >>, << "R4", "d", "e", "a", "b", "c", 13 >>,
      << "R4", "c", "d", "e", "a", "b", 14 >>, << "R4", "b", "c", "d", "e", "a", 15 >> >>

\* the four calls of one line of transform, after the acc.k calls done
RoundLine(acc) ==
    Round(Round(Round(Round(acc, TransformCalls[acc.k + 1]), TransformCalls[acc.k + 2]),
                TransformCalls[acc.k + 3]), TransformCalls[acc.k + 4])

RECURSIVE Rounds(_)
\* the lines that are left after the acc.k calls done
Rounds(acc) ==
    IF acc.k >= Len(TransformCalls) THEN acc ELSE Rounds(RoundLine(acc))

\* transform(data) on the 64 bytes data: the new state[0..4]
SHA1_transform(state, data) ==
    LET block == [i \in 0 .. 15 |->
                     << data[i * 4 + 1] * 256 + data[i * 4 + 2],
                        data[i * 4 + 3] * 256 + data[i * 4 + 4] >>]
        regs == [a |-> state[1], b |-> state[2], c |-> state[3], d |-> state[4],
                 e |-> state[5]]
        out == Rounds([r |-> regs, b |-> block, k |-> 0]).r
    IN  << WordAdd(state[1], out.a), WordAdd(state[2], out.b), WordAdd(state[3], out.c),
           WordAdd(state[4], out.d), WordAdd(state[5], out.e) >>

RECURSIVE TransformBlocks(_, _, _)
\* for (i = partLen; i + 63 < len; i += 64) transform(&data[i]): the state
\* and the final i
TransformBlocks(state, data, i) ==
    IF i + 63 < Len(data)
    THEN TransformBlocks(SHA1_transform(state, SubSeq(data, i + 1, i + 64)), data, i + 64)
    ELSE [state |-> state, i |-> i]

\* update(data, len); the messages of the model are shorter than 2^28
\* bytes, so count[0] does not wrap
SHA1_update(s, data) ==
    LET len == Len(data)
        index == (s.count[1] \div 8) % 64
        count == << s.count[1] + len * 8, s.count[2] + (len \div 536870912) >>
        partLen == 64 - index
    IN  IF len >= partLen
        THEN LET first == SHA1_transform(s.state, s.buffer \o SubSeq(data, 1, partLen))
                 rest == TransformBlocks(first, data, partLen)
             IN  [state |-> rest.state, count |-> count,
                  buffer |-> SubSeq(data, rest.i + 1, len)]
        ELSE [state |-> s.state, count |-> count, buffer |-> s.buffer \o data]

RECURSIVE PadZeros(_)
\* while ((count[0] & 504) != 448) update(0x00)
PadZeros(s) ==
    IF ((s.count[1] \div 8) % 64) * 8 # 448 THEN PadZeros(SHA1_update(s, << 0 >>))
    ELSE s

\* byte k (0 the most significant) of the pair w, and of the number n
WordByte(w, k) == (w[(k \div 2) + 1] \div (IF k % 2 = 0 THEN 256 ELSE 1)) % 256
CountByte(n, k) == (n \div Pow2((3 - k) * 8)) % 256

\* finalcount[0..7] of final()
FinalCount(s) ==
    [i \in 1 .. 8 |-> CountByte(s.count[IF i - 1 >= 4 THEN 1 ELSE 2], (i - 1) % 4)]

\* hash[0..19] of final()
StateBytes(state) ==
    [i \in 1 .. 20 |-> WordByte(state[((i - 1) \div 4) + 1], (i - 1) % 4)]

\* final(): the 20 bytes
SHA1_final(s) ==
    StateBytes(SHA1_update(PadZeros(SHA1_update(s, << 128 >>)), FinalCount(s)).state)

\* SHA1::hash(s)
SHA1_hash(s) == SHA1_final(SHA1_update(SHA1_reset, s))

\* the messages that are hashed
SHA1Messages == UNION { [1 .. n -> { 97, 98, 99 }] : n \in 0 .. MaxMessage }

\* SHA1 sha1 is constructed for a message that is fed in several calls
SHA1New ==
    /\ sha.pc = "idle"
    /\ \E message \in SHA1Messages :
          sha' = [pc |-> "feeding", message |-> message, fed |-> 0, updates |-> 0,
                  object |-> SHA1_reset, finalcount |-> << >>, out |-> << >>]
    /\ UNCHANGED << downloadVars, componentVars, cmd, sess >>

\* sha1.update(s) with the next bytes of the message
SHA1Update ==
    /\ sha.pc = "feeding"
    /\ \E n \in 1 .. Len(sha.message) - sha.fed :
          sha' = [sha EXCEPT !.fed = sha.fed + n, !.updates = sha.updates + 1,
                             !.object = SHA1_update(sha.object,
                                           SubSeq(sha.message, sha.fed + 1, sha.fed + n))]
    /\ UNCHANGED << downloadVars, componentVars, cmd, sess >>

\* SHA1::hash(message) up to its call of final(): the object is
\* constructed and the whole message is fed in one update
SHA1Hash ==
    /\ sha.pc = "idle"
    /\ \E message \in SHA1Messages :
          sha' = [pc |-> "feeding", message |-> message, fed |-> Len(message),
                  updates |-> 1, object |-> SHA1_update(SHA1_reset, message),
                  finalcount |-> << >>, out |-> << >>]
    /\ UNCHANGED << downloadVars, componentVars, cmd, sess >>

\* final() after the whole message has been fed: finalcount and the byte 0x80
SHA1FinalBegin ==
    /\ sha.pc = "feeding"
    /\ sha.fed = Len(sha.message)
    /\ sha' = [sha EXCEPT !.pc = "pad", !.finalcount = FinalCount(sha.object),
                          !.object = SHA1_update(sha.object, << 128 >>)]
    /\ UNCHANGED << downloadVars, componentVars, cmd, sess >>

\* final(): the zero bytes
SHA1FinalPad ==
    /\ sha.pc = "pad"
    /\ sha' = [sha EXCEPT !.pc = "length", !.object = PadZeros(sha.object)]
    /\ UNCHANGED << downloadVars, componentVars, cmd, sess >>

\* final(): the length, the bytes of the state, reset()
SHA1FinalEnd ==
    /\ sha.pc = "length"
    /\ sha' = [sha EXCEPT !.pc = "final",
                          !.out = StateBytes(SHA1_update(sha.object, sha.finalcount).state),
                          !.object = SHA1_reset]
    /\ UNCHANGED << downloadVars, componentVars, cmd, sess >>

SHA1Next ==
    \/ SHA1New
    \/ SHA1Update
    \/ SHA1Hash
    \/ SHA1FinalBegin
    \/ SHA1FinalPad
    \/ SHA1FinalEnd

SHA1Spec == Init /\ [][SHA1Next]_vars

\* a9993e364706816aba3e25717850c26c9cd0d89b
C24_AbcDigest ==
    << 169, 153, 62, 54, 71, 6, 129, 106, 186, 62, 37, 113, 120, 80, 194, 108,
       156, 208, 216, 157 >>

\* C24: SHA1::hash("abc") is a9993e364706816aba3e25717850c26c9cd0d89b, the
\* halves of the words of the state stay below 2^16 (the words below 2^32),
\* and the bytes that update and final give, in however many calls of
\* update the message is fed, are the bytes of SHA1::hash.
C24_Sha1Abc ==
    /\ (sha.pc = "final" /\ sha.message = << 97, 98, 99 >>) => sha.out = C24_AbcDigest
    /\ sha.pc = "final" =>
          /\ sha.out = SHA1_hash(sha.message)
          /\ Len(sha.out) = 20
          /\ \A i \in 1 .. 20 : sha.out[i] \in 0 .. 255
    /\ sha.pc \in { "feeding", "pad", "length" } =>
          \A i \in 1 .. 5 : \A j \in 1 .. 2 : sha.object.state[i][j] \in 0 .. 65535

\* "abc" was fed in three calls of update and gave the digest
C24_Witness ==
    /\ sha.pc = "final" /\ sha.message = << 97, 98, 99 >> /\ sha.updates = 3
    /\ sha.out = C24_AbcDigest

\* "abc" was fed in one call
C24_WitnessHash ==
    /\ sha.pc = "final" /\ sha.message = << 97, 98, 99 >> /\ sha.updates = 1
    /\ sha.out = C24_AbcDigest

(***************************************************************************)
(* One session of download_worker, message by message.  sess holds the     *)
(* position of the worker (the call of recv_peer_message it is blocked     *)
(* in), its bitfield and current_piece, the shared queue, and what the     *)
(* peer has sent.  A block is named by its number; a piece message carries *)
(* index, block number and whether its bytes are the right ones.           *)
(***************************************************************************)
SessionBlocks == 2

KeepAlive == [keepalive |-> TRUE, id |-> 0, payload |-> << >>]

SessionMessage(id, payload) == [keepalive |-> FALSE, id |-> id, payload |-> payload]

\* what recv_peer_message can return on a session
SessionMessages ==
    { KeepAlive, SessionMessage(0, << >>), SessionMessage(1, << >>) }
        \cup { SessionMessage(4, << i >>) : i \in Pieces }
        \cup { SessionMessage(5, b) : b \in PeerBitfields }
        \cup { SessionMessage(7, << i, k, g >>) :
                  i \in Pieces, k \in 0 .. SessionBlocks - 1, g \in 0 .. 1 }

\* the session of the model before tcp_connect
SessionStart ==
    [pc |-> "connect", log |-> << >>, interested |-> 0, bitfield |-> << >>,
     peer_choking |-> TRUE, haves |-> {}, queue |-> PieceWorkQueue(NumPieces),
     current_piece |-> -1, begin |-> 0, good |-> TRUE, request |-> << >>,
     extra |-> 0, other_piece |-> -1]

\* what the peer has told so far: choke and unchoke set and clear
\* peer_choking, have(i) adds i to haves; extra counts the messages
Heard(s, msg) ==
    [s EXCEPT !.extra = @ + 1,
              !.peer_choking = IF msg.keepalive THEN @
                               ELSE IF msg.id = 0 THEN TRUE
                               ELSE IF msg.id = 1 THEN FALSE
                               ELSE @,
              !.haves = IF ~msg.keepalive /\ msg.id = 4 THEN @ \cup { msg.payload[1] }
                        ELSE @]

\* the first event of a kind is logged
Logged(s, event) ==
    IF \E k \in 1 .. Len(s.log) : s.log[k] = event THEN s
    ELSE [s EXCEPT !.log = Append(@, event)]

\* send_peer_message(sock, 6, payload) for the block s.begin of s.current_piece
SendRequest(s) ==
    Logged([s EXCEPT !.pc = "block", !.request = << s.current_piece, s.begin >>],
           "request")

\* the head of the while loop of download_worker: acquire the next piece
\* and request its first block, or leave the loop and close the socket
WorkerLoop(s) ==
    IF s.queue.remaining <= 0 THEN [s EXCEPT !.pc = "closed", !.current_piece = -1]
    ELSE LET a == acquire_next_piece(s.queue, s.bitfield, NumPieces)
         IN  IF a.ret < 0
             THEN [s EXCEPT !.pc = "closed", !.queue = a.q, !.current_piece = -1]
             ELSE SendRequest([s EXCEPT !.queue = a.q, !.current_piece = a.ret,
                                        !.begin = 0, !.good = TRUE])

\* the catch block of download_worker
WorkerCatch(s) ==
    [s EXCEPT !.pc = "failed",
              !.queue = IF s.current_piece >= 0
                        THEN mark_piece_retry(s.queue, s.current_piece) ELSE @]

SessUnchanged == UNCHANGED << downloadVars, componentVars, sha, cmd >>

\* a worker starts
SessStart ==
    /\ sess.pc = "idle"
    /\ sess' = SessionStart
    /\ SessUnchanged

\* tcp_connect
SessConnect ==
    /\ sess.pc = "connect"
    /\ \E ok \in BOOLEAN :
          sess' = IF ok THEN Logged([sess EXCEPT !.pc = "handshake"], "connect")
                  ELSE WorkerCatch(sess)
    /\ SessUnchanged

\* perform_handshake, then the first recv_peer_message of
\* recv_bitfield_payload
SessHandshake ==
    /\ sess.pc = "handshake"
    /\ \E ok \in BOOLEAN :
          sess' = IF ok THEN Logged([sess EXCEPT !.pc = "bitfield"], "handshake")
                  ELSE WorkerCatch(sess)
    /\ SessUnchanged

\* a message in recv_bitfield_payload; the bitfield is followed by
\* send_peer_message(sock, 2, "") and the first receive of wait_for_unchoke
SessRecvBitfieldNoInterested(msg) ==
    IF ~msg.keepalive /\ msg.id = 5
    THEN Logged([Heard(sess, msg) EXCEPT !.pc = "unchoke", !.bitfield = msg.payload],
                "bitfield")
    ELSE Heard(sess, msg)

SessRecvBitfield(msg) ==
    IF ~msg.keepalive /\ msg.id = 5
    THEN Logged(Logged([Heard(sess, msg) EXCEPT !.pc = "unchoke",
                                                !.bitfield = msg.payload,
                                                !.interested = @ + 1],
                       "bitfield"), "interested")
    ELSE Heard(sess, msg)

\* a message in wait_for_unchoke of download_worker; unchoke is followed
\* by the head of the loop
SessWaitUnchoke(msg) ==
    IF ~msg.keepalive /\ msg.id = 1
    THEN WorkerLoop(Logged(Heard(sess, msg), "unchoke"))
    ELSE Heard(sess, msg)

\* the piece is complete: SHA1::hash is compared, the cell is marked, and
\* the loop goes on
PieceComplete(s) ==
    WorkerLoop([s EXCEPT !.queue = IF s.good THEN mark_piece_done(@, s.current_piece)
                                   ELSE mark_piece_retry(@, s.current_piece),
                         !.current_piece = -1])

\* a message in the receive loop of download_piece_from_peer
SessRecvBlock(msg) ==
    LET s == Heard(sess, msg)
    IN  IF msg.keepalive THEN s
        ELSE IF msg.id = 0 THEN [s EXCEPT !.pc = "choked"]
        ELSE IF msg.id = 1 THEN s
        ELSE IF msg.id # 7 THEN s
        ELSE IF msg.payload[1] # s.current_piece \/ msg.payload[2] # s.begin THEN s
        ELSE LET got == [s EXCEPT !.good = @ /\ msg.payload[3] = 1]
             IN  IF s.begin + 1 < SessionBlocks
                 THEN SendRequest([got EXCEPT !.begin = @ + 1])
                 ELSE PieceComplete(got)

\* a message in wait_for_unchoke of download_piece_from_peer; unchoke is
\* followed by the request for the same block
SessWaitUnchokeAgain(msg) ==
    IF ~msg.keepalive /\ msg.id = 1 THEN SendRequest(Heard(sess, msg))
    ELSE Heard(sess, msg)

\* recv_peer_message returns msg to the worker
SessRecv ==
    /\ sess.pc \in { "bitfield", "unchoke", "block", "choked" }
    /\ sess.extra < MaxSessionMessages + NumPieces * SessionBlocks
    /\ \E msg \in SessionMessages :
          sess' = CASE sess.pc = "bitfield" -> SessRecvBitfield(msg)
                    [] sess.pc = "unchoke" -> SessWaitUnchoke(msg)
                    [] sess.pc = "block" -> SessRecvBlock(msg)
                    [] sess.pc = "choked" -> SessWaitUnchokeAgain(msg)
    /\ SessUnchanged

\* recv_peer_message throws
SessRecvError ==
    /\ sess.pc \in { "bitfield", "unchoke", "block", "choked" }
    /\ sess' = WorkerCatch(sess)
    /\ SessUnchanged

\* another worker acquires a piece with the bitfield of its own peer
SessOtherAcquire ==
    /\ sess.pc \notin { "idle" }
    /\ sess.other_piece < 0
    /\ LET a == acquire_next_piece(sess.queue, << >>, NumPieces)
       IN  /\ a.ret >= 0
           /\ sess' = [sess EXCEPT !.queue = a.q, !.other_piece = a.ret]
    /\ SessUnchanged

\* the other worker has downloaded its piece
SessOtherDone ==
    /\ sess.pc \notin { "idle" }
    /\ sess.other_piece >= 0
    /\ sess' = [sess EXCEPT !.queue = mark_piece_done(@, sess.other_piece),
                            !.other_piece = -1]
    /\ SessUnchanged

SessionNext ==
    \/ SessStart
    \/ SessConnect
    \/ SessHandshake
    \/ SessRecv
    \/ SessRecvError
    \/ SessOtherAcquire
    \/ SessOtherDone

SessionSpec == Init /\ [][SessionNext]_vars

SessionOrder == << "connect", "handshake", "bitfield", "interested", "unchoke", "request" >>

\* C25: the events of a session occur in the order connect, handshake,
\* bitfield, interested, unchoke, request; interested is sent once; a
\* request is outstanding only after all of them.
C25_SessionOrder ==
    sess.pc # "idle" =>
        /\ Len(sess.log) <= Len(SessionOrder)
        /\ sess.log = SubSeq(SessionOrder, 1, Len(sess.log))
        /\ sess.interested <= 1
        /\ Len(sess.log) >= 4 => sess.interested = 1
        /\ sess.pc \in { "block", "choked" } => sess.log = SessionOrder

\* a block is requested after the whole setup
C25_Witness ==
    sess.pc = "block" /\ sess.log = SessionOrder /\ sess.interested = 1

\* the test acquire_next_piece makes of piece i for the peer of the session
SessionPeerHas(i) == sess.bitfield = << >> \/ bitfield_has_piece(sess.bitfield, i)

\* C27: once the bitfield message has been received, every piece i the
\* peer has announced with have(i) passes the bitfield test of acquire for
\* that session.
C27_HaveSetsBit ==
    sess.pc \in { "unchoke", "block", "choked", "closed" } =>
        \A i \in sess.haves : SessionPeerHas(i)

\* C28: a session whose peer has sent the bitfield and whose last choke or
\* unchoke was an unchoke is not waiting for a further unchoke.
C28_UnchokeAnyTime ==
    sess.pc \in { "unchoke", "choked" } => sess.peer_choking

\* C29: while a session waits for an unchoke after a choke that arrived
\* with a piece in flight, the cell of that piece is pending again.
C29_ChokeRequeues ==
    sess.pc = "choked" => sess.queue.state[sess.current_piece] = PENDING

\* the last message received is an unchoke
LastWasUnchoke(b) == b.msg # NoMessage /\ ~b.msg.keepalive /\ b.msg.id = 1

C26_Step ==
    /\ blk.pc = "choked" =>
          /\ blk'.sent = blk.sent
          /\ blk'.begin = blk.begin
          /\ blk'.piece_data = blk.piece_data
          /\ blk'.filled = blk.filled
          /\ blk'.pc \in { "choked", "request", "failed" }
          /\ blk'.pc = "request" => LastWasUnchoke(blk')
    /\ (blk.pc = "request" /\ LastWasUnchoke(blk) /\ blk'.pc = "recv") =>
          /\ blk'.sent = blk.sent
          /\ blk'.begin = blk.begin
          /\ blk'.piece_data = blk.piece_data
          /\ blk'.filled = blk.filled
    /\ (blk.pc = "recv" /\ blk'.pc = "choked") =>
          /\ blk'.begin = blk.begin
          /\ blk'.piece_data = blk.piece_data
          /\ blk'.filled = blk.filled

\* C26: after a choke with a request outstanding nothing is sent until an
\* unchoke arrives; the request sent then is the one that was outstanding,
\* byte for byte, and the blocks received before stay in the piece buffer
\* and are not requested again.
C26_ChokeResendsSameBlock ==
    /\ [][C26_Step]_vars
    /\ [](blk.pc \in { "request", "recv", "choked" } =>
            \A k \in 1 .. NumBlocks(blk.piece_size) :
                (k - 1) * block_size < blk.begin <=> blk.filled[k] # NoMessage)

\* the second block was requested, a choke and then an unchoke arrived,
\* and the request is about to be sent again
C26_Witness ==
    /\ blk.pc = "request" /\ LastWasUnchoke(blk)
    /\ blk.begin = block_size
    /\ blk.sent = send_peer_message(6, request_payload(blk.piece_index, block_size,
                                        req_len(blk.piece_size, block_size)))
    /\ blk.filled[1] # NoMessage

\* index, begin and length of the request frame that was sent last
SentIndex == read_u32_be(blk.sent, 5)
SentBegin == read_u32_be(blk.sent, 9)
SentLength == read_u32_be(blk.sent, 13)

RECURSIVE SumLengths(_, _)
SumLengths(piece, k) == IF k = 0 THEN 0 ELSE StrLen(piece[k]) + SumLengths(piece, k - 1)

C30_Step ==
    /\ (blk.pc # "idle" /\ blk'.sent # blk.sent) => blk.pc = "request"
    /\ (blk.pc # "idle" /\ blk'.begin # blk.begin) =>
          /\ blk.pc = "recv"
          /\ blk'.begin = blk.begin + block_size
          /\ blk'.filled[(blk.begin \div block_size) + 1] = blk'.msg
          /\ blk'.msg.id = 7
    /\ (blk.pc = "request" /\ blk'.pc = "recv") =>
          /\ read_u32_be(blk'.sent, 5) = blk.piece_index
          /\ read_u32_be(blk'.sent, 9) = blk.begin
          /\ read_u32_be(blk'.sent, 13) = Min(block_size, blk.piece_size - blk.begin)

\* C30: the requests of a piece of size P are for begin = 0, 16384, ... < P
\* in ascending order, each of length min(16384, P - begin); a request is
\* sent only when none is outstanding, and begin advances only when the
\* block requested last has been received; the lengths sum to P.
C30_BlockSchedule ==
    /\ [][C30_Step]_vars
    /\ [](blk.pc \in { "request", "recv", "choked" } =>
            /\ blk.begin % block_size = 0
            /\ blk.begin >= 0 /\ blk.begin < blk.piece_size)
    /\ [](blk.pc \in { "recv", "choked" } =>
            /\ SentIndex = blk.piece_index
            /\ SentBegin = blk.begin
            /\ SentLength = Min(block_size, blk.piece_size - blk.begin)
            /\ SentLength > 0
            /\ SentLength < block_size => SentBegin + SentLength = blk.piece_size)
    /\ [](blk.pc = "returned" =>
            /\ blk.begin = NumBlocks(blk.piece_size) * block_size
            /\ SumLengths(blk.piece_data, NumBlocks(blk.piece_size)) = blk.piece_size)

\* a piece of three blocks with a short last block was returned
C30_Witness ==
    /\ blk.pc = "returned"
    /\ blk.piece_size = 2 * block_size + 100
    /\ SentBegin = 2 * block_size /\ SentLength = 100
    /\ SumLengths(blk.piece_data, 3) = blk.piece_size

\* C31: the handshake that is sent has 68 bytes; with extension support
\* its reserved byte 5 is 0x10 and the other seven are 0, without it all
\* eight are 0; after a valid response the remote is reported as
\* extension-capable exactly when bit 0x10 of reserved byte 5 of the
\* response is set, whatever the other reserved bits are.
C31_ExtensionBit ==
    /\ (hs.pc # "idle" /\ hs.out # << >>) =>
          /\ Len(hs.out) = 68
          /\ hs.out[26] = (IF hs.support_extensions THEN 16 ELSE 0)
          /\ \A k \in (21 .. 28) \ { 26 } : hs.out[k] = 0
    /\ (hs.pc # "idle" /\ hs.peer_id # << >>) =>
          (hs.peer_supports_extensions <=> BitAnd(hs.response[26], 16) # 0)

\* a response with every reserved bit of byte 5 set except 0x10, and bits
\* set in other reserved bytes, was accepted as not extension-capable
C31_Witness ==
    /\ hs.pc = "ok" /\ hs.support_extensions
    /\ hs.response[26] = 239 /\ hs.response[21] = 128 /\ hs.response[28] = 1
    /\ ~hs.peer_supports_extensions

\* a response with 0x14 in reserved byte 5 was accepted as extension-capable
C31_WitnessCapable ==
    /\ hs.pc = "ok" /\ hs.response[26] = 20 /\ hs.peer_supports_extensions

(***************************************************************************)
(* The extension sub-protocol on one connection, message by message, for   *)
(* each command that opens a peer session: what is sent after the          *)
(* handshake, and for magnet_info the loops of recv_extension_handshake    *)
(* and recv_metadata_data and the check of the metadata.                   *)
(***************************************************************************)
\* m, ut_metadata, msg_type, piece, total_size
KeyM == << 109 >>
KeyUtMetadata == << 117, 116, 95, 109, 101, 116, 97, 100, 97, 116, 97 >>
KeyMsgType == << 109, 115, 103, 95, 116, 121, 112, 101 >>
KeyPiece == << 112, 105, 101, 99, 101 >>
KeyTotalSize == << 116, 111, 116, 97, 108, 95, 115, 105, 122, 101 >>

\* the size of a piece of the metadata
MetadataPieceSize == 16 * 1024

\* SHA1::hash of a long string, as Digest of its bytes
StrDigest(s) == (SumSeq(s.b) + s.z * BodyByte + StrLen(s)) % 2

\* the metadata the peers of the model hold: one of one piece, one of two
ExtMetadatas == { Bytes(MetaInfo), [b |-> << 100 >>, z |-> MetadataPieceSize + 2] }

NumMetadataPieces(total_size) == (total_size + MetadataPieceSize - 1) \div MetadataPieceSize

\* ext_handshake["m"]["ut_metadata"] = 1; the bytes send_all gets
send_extension_handshake ==
    LET ext_handshake == BObject({ << KeyM, BObject({ << KeyUtMetadata, BInt(1) >> }) >> })
        bencoded == bencode_encode(ext_handshake)
    IN  Bytes(append_u32_be(<< >>, 2 + Len(bencoded)) \o << 20, 0 >> \o bencoded)

\* send_metadata_request with the extension id 1 in place of the peer's
send_metadata_request_own_id(peer_metadata_id, piece_index) ==
    LET request == BObject({ << KeyMsgType, BInt(0) >>, << KeyPiece, BInt(piece_index) >> })
        bencoded == bencode_encode(request)
    IN  Bytes(append_u32_be(<< >>, 2 + Len(bencoded)) \o << 20, 1 >> \o bencoded)

\* the bytes send_metadata_request hands to send_all;
\* static_cast<char>(peer_metadata_id) keeps the low 8 bits
send_metadata_request(peer_metadata_id, piece_index) ==
    LET request == BObject({ << KeyMsgType, BInt(0) >>, << KeyPiece, BInt(piece_index) >> })
        bencoded == bencode_encode(request)
    IN  Bytes(append_u32_be(<< >>, 2 + Len(bencoded)) \o << 20, peer_metadata_id % 256 >>
                 \o bencoded)

\* an extended message of a peer: id 20, the extension id, a bencoded
\* header and the bytes after it
ExtendedMessage(ext_msg_id, header, data) ==
    LET payload == StrCat(<< ext_msg_id >> \o header, data)
    IN  PeerMessage(1 + StrLen(payload), FALSE, 20, payload)

\* the header of a ut_metadata message
MetadataHeader(msg_type, piece, total_size) ==
    bencode_encode(BObject({ << KeyMsgType, BInt(msg_type) >>, << KeyPiece, BInt(piece) >>,
                             << KeyTotalSize, BInt(total_size) >> }))

\* piece number `piece` of the metadata
MetadataPiece(metadata, piece) ==
    LET rest == StrDrop(metadata, piece * MetadataPieceSize)
    IN  StrTake(rest, Min(MetadataPieceSize, StrLen(rest)))

\* the extension handshakes of peers: ut_metadata ids, no ut_metadata, no m
PeerExtHandshakes ==
    { bencode_encode(BObject({ << KeyM, BObject({ << KeyUtMetadata, BInt(id) >> }) >> })) :
         id \in { 1, 2, 255 } }
        \cup { bencode_encode(BObject({ << KeyM, BObject({}) >> })),
               bencode_encode(BInt(5)) }

\* what recv_peer_message can return on the connection to a peer that holds
\* metadata
ExtMessages(metadata) ==
    { PeerMessage(0, TRUE, 0, EmptyStr),
      PeerMessage(1, FALSE, 1, EmptyStr),
      PeerMessage(1, FALSE, 20, EmptyStr) }
        \cup { ExtendedMessage(0, h, EmptyStr) : h \in PeerExtHandshakes }
        \cup { ExtendedMessage(e, MetadataHeader(1, p, StrLen(metadata)),
                               MetadataPiece(metadata, p)) :
                  e \in { 1, 2 }, p \in 0 .. NumMetadataPieces(StrLen(metadata)) - 1 }
        \cup { ExtendedMessage(1, MetadataHeader(2, 0, StrLen(metadata)), EmptyStr),
               ExtendedMessage(1, bencode_encode(BInt(5)), Bytes(<< 120 >>)),
               ExtendedMessage(1, << 100, 51, 58, 97, 98, 99 >>, EmptyStr) }

\* peer_ext_handshake["m"]["ut_metadata"].get<int>(): the id, or none when
\* the json library throws
ExtMetadataId(j) ==
    IF TypeOf(j) = "object" /\ KeyM \in ObjectKeys(ValueOf(j))
    THEN LET m == ObjectGet(ValueOf(j), KeyM)
         IN  IF TypeOf(m) = "object" /\ KeyUtMetadata \in ObjectKeys(ValueOf(m))
                 /\ TypeOf(ObjectGet(ValueOf(m), KeyUtMetadata)) = "int"
             THEN [ok |-> TRUE, id |-> ValueOf(ObjectGet(ValueOf(m), KeyUtMetadata))]
             ELSE [ok |-> FALSE, id |-> 0]
    ELSE [ok |-> FALSE, id |-> 0]

\* the commands that open a peer session, and the support_extensions
\* argument of their perform_handshake
ExtCommands == { "download", "download_piece", "magnet_handshake", "magnet_info" }
SupportsExtensions(command) == command \in { "magnet_handshake", "magnet_info" }

\* the test that lets every peer through
extension_guard_always(peer_supports_extensions) == TRUE

\* if (peer_supports_extensions), if (!peer_supports_extensions)
extension_guard(peer_supports_extensions) == peer_supports_extensions

ExtUnchanged == UNCHANGED << downloadVars, componentVars, sha, sess >>

\* the command starts: tcp_connect, and build_handshake is sent
ExtConnect ==
    /\ cmd.pc = "idle"
    /\ \E command \in ExtCommands, metadata \in ExtMetadatas :
          cmd' = [pc |-> "handshake", command |-> command, torrent |-> metadata,
                  info_hash |-> StrDigest(metadata),
                  out |-> build_handshake(Run20(100), Run20(40), SupportsExtensions(command)),
                  peer_supports_extensions |-> FALSE, sent |-> << >>, log |-> << >>,
                  peer_metadata_id |-> 0, accepted |-> NoMessage, header |-> NoInfo,
                  metadata |-> EmptyStr, requested |-> {}, extra |-> 0,
                  closed |-> FALSE, err |-> NoError]
    /\ ExtUnchanged

\* the command ends through the exception what
ExtThrow(c, what) == [c EXCEPT !.pc = "failed", !.err = what]

\* the response to the handshake arrives and perform_handshake returns
ExtHandshake ==
    /\ cmd.pc = "handshake"
    /\ \E response \in HandshakeResponses :
          cmd' = IF ~response_valid(response)
                 THEN ExtThrow(cmd, "Invalid handshake response")
                 ELSE [cmd EXCEPT !.pc = "bitfield",
                                  !.log = Append(@, "handshake"),
                                  !.peer_supports_extensions =
                                      SupportsExtensions(cmd.command)
                                          /\ supports_extensions(response)]
    /\ ExtUnchanged

\* recv_bitfield_payload returns, and what the command sends next
ExtBitfield ==
    /\ cmd.pc = "bitfield"
    /\ LET c == [cmd EXCEPT !.log = Append(@, "bitfield")]
       IN  cmd' =
              IF ~SupportsExtensions(cmd.command)
              THEN [c EXCEPT !.pc = "unchoke",
                             !.sent = Append(@, send_peer_message(2, EmptyStr))]
              ELSE IF ~extension_guard(cmd.peer_supports_extensions)
              THEN IF cmd.command = "magnet_info"
                   THEN ExtThrow([c EXCEPT !.closed = TRUE],
                                 "Peer does not support extensions")
                   ELSE [c EXCEPT !.pc = "done", !.closed = TRUE]
              ELSE [c EXCEPT !.pc = "ext_recv",
                             !.sent = Append(@, send_extension_handshake),
                             !.log = Append(@, "ext_handshake_sent")]
    /\ ExtUnchanged

\* wait_for_unchoke returns and the first block is requested
ExtUnchoke ==
    /\ cmd.pc = "unchoke"
    /\ cmd' = [cmd EXCEPT !.pc = "block",
                          !.sent = Append(@, send_peer_message(6,
                                                request_payload(0, 0, block_size)))]
    /\ ExtUnchanged

\* the piece arrives and the socket is closed
ExtBlock ==
    /\ cmd.pc = "block"
    /\ cmd' = [cmd EXCEPT !.pc = "done", !.closed = TRUE]
    /\ ExtUnchanged

\* a message in recv_extension_handshake; on the handshake of the peer
\* magnet_handshake prints and closes, magnet_info sends the request
ExtRecvHandshake ==
    /\ cmd.pc = "ext_recv"
    /\ \E msg \in ExtMessages(cmd.torrent) :
          cmd' =
             IF msg.keepalive THEN [cmd EXCEPT !.extra = @ + 1]
             ELSE IF msg.id = 20 /\ StrLen(msg.payload) # 0 /\ StrAt(msg.payload, 0) = 0
             THEN LET r == decode_bencoded_value(StrDrop(msg.payload, 1).b, 0)
                  IN  IF ~r.ok THEN ExtThrow(cmd, r.err)
                      ELSE IF ~ExtMetadataId(r.v).ok THEN ExtThrow(cmd, "json type_error")
                      ELSE LET id == ExtMetadataId(r.v).id
                               c == [cmd EXCEPT !.peer_metadata_id = id,
                                                !.log = Append(@, "ext_handshake_received")]
                           IN  IF cmd.command = "magnet_handshake"
                               THEN [c EXCEPT !.pc = "done", !.closed = TRUE]
                               ELSE [c EXCEPT !.pc = "data",
                                              !.sent = Append(@, send_metadata_request(id, 0)),
                                              !.requested = @ \cup { 0 },
                                              !.log = Append(@, "request_sent")]
             ELSE [cmd EXCEPT !.extra = @ + 1]
    /\ cmd'.extra <= MaxSessionMessages
    /\ ExtUnchanged

\* a message in recv_metadata_data; the data response is followed by
\* closesocket
ExtRecvData ==
    /\ cmd.pc = "data"
    /\ \E msg \in ExtMessages(cmd.torrent) :
          cmd' =
             IF msg.keepalive THEN [cmd EXCEPT !.extra = @ + 1]
             ELSE IF msg.id = 20 /\ StrLen(msg.payload) # 0 /\ StrAt(msg.payload, 0) = 1
             THEN LET rest == StrDrop(msg.payload, 1)
                      r == decode_bencoded_value(rest.b, 0)
                  IN  IF ~r.ok THEN ExtThrow(cmd, r.err)
                      ELSE IF TypeOf(r.v) = "object" /\ KeyMsgType \in ObjectKeys(ValueOf(r.v))
                      THEN IF TypeOf(ObjectGet(ValueOf(r.v), KeyMsgType)) # "int"
                           THEN ExtThrow(cmd, "json type_error")
                           ELSE IF ValueOf(ObjectGet(ValueOf(r.v), KeyMsgType)) = 1
                           THEN [cmd EXCEPT !.pc = "verify", !.accepted = msg,
                                            !.header = r.v,
                                            !.metadata = StrDrop(rest, r.pos),
                                            !.closed = TRUE,
                                            !.log = Append(@, "data_received")]
                           ELSE [cmd EXCEPT !.extra = @ + 1]
                      ELSE [cmd EXCEPT !.extra = @ + 1]
             ELSE [cmd EXCEPT !.extra = @ + 1]
    /\ cmd'.extra <= MaxSessionMessages
    /\ ExtUnchanged

\* recv_peer_message or send_all throws
ExtFail ==
    /\ cmd.pc \in { "bitfield", "unchoke", "block", "ext_recv", "data" }
    /\ cmd' = ExtThrow(cmd, "Peer closed connection")
    /\ ExtUnchanged

\* computed_hash = SHA1::hash(metadata) is compared with info_hash
ExtVerify ==
    /\ cmd.pc = "verify"
    /\ cmd' = IF metadata_hash_differs(StrDigest(cmd.metadata), cmd.info_hash)
              THEN ExtThrow(cmd, "Metadata hash mismatch")
              ELSE [cmd EXCEPT !.pc = "verified"]
    /\ ExtUnchanged

ExtNext ==
    \/ ExtConnect
    \/ ExtHandshake
    \/ ExtBitfield
    \/ ExtUnchoke
    \/ ExtBlock
    \/ ExtRecvHandshake
    \/ ExtRecvData
    \/ ExtFail
    \/ ExtVerify

ExtSpec == Init /\ [][ExtNext]_vars

\* the ids of the frames sent so far
SentIds == { StrAt(cmd.sent[k], 4) : k \in 1 .. Len(cmd.sent) }

\* C32: a frame with id 20 has been sent only on a session whose own
\* handshake had the extension bit set and whose peer answered with the
\* extension bit set; download and download_piece send no frame with id 20.
C32_ExtendedOnlyWhenBoth ==
    (cmd.pc # "idle" /\ 20 \in SentIds) =>
        /\ cmd.out[26] = 16
        /\ cmd.peer_supports_extensions
        /\ cmd.command \in { "magnet_handshake", "magnet_info" }

\* magnet_info has sent its extension handshake and its request
C32_Witness ==
    /\ cmd.pc = "data" /\ cmd.command = "magnet_info"
    /\ Len(cmd.sent) = 2 /\ SentIds = { 20 }

\* download has sent interested and a request, and nothing with id 20
C32_WitnessDownload ==
    /\ cmd.pc = "done" /\ cmd.command = "download" /\ SentIds = { 2, 6 }

ExtOrder ==
    << "handshake", "bitfield", "ext_handshake_sent", "ext_handshake_received",
       "request_sent", "data_received" >>

\* the request frame magnet_info has sent, and the dictionary in it
C33_Request == cmd.sent[2]
C33_RequestDict == decode_bencoded_value(StrDrop(C33_Request, 6).b, 0)

\* C33: in magnet_info the events occur in the order handshake, bitfield,
\* extension handshake sent, peer's extension handshake received, request
\* sent, data received; the request has the low byte of the peer's
\* ut_metadata id as extension id and asks for piece 0 with msg_type 0; the
\* message accepted as the data has id 20, extension id 1 and msg_type 1.
C33_MagnetOrder ==
    (cmd.pc # "idle" /\ cmd.command = "magnet_info") =>
        /\ Len(cmd.log) <= Len(ExtOrder)
        /\ cmd.log = SubSeq(ExtOrder, 1, Len(cmd.log))
        /\ Len(cmd.sent) = (IF Len(cmd.log) >= 5 THEN 2 ELSE IF Len(cmd.log) >= 3 THEN 1 ELSE 0)
        /\ Len(cmd.sent) >= 1 => cmd.sent[1] = send_extension_handshake
        /\ Len(cmd.sent) >= 2 =>
              /\ StrAt(C33_Request, 4) = 20
              /\ StrAt(C33_Request, 5) = cmd.peer_metadata_id % 256
              /\ read_u32_be(C33_Request, 0) = StrLen(C33_Request) - 4
              /\ C33_RequestDict.ok
              /\ C33_RequestDict.v = BObject({ << KeyMsgType, BInt(0) >>,
                                               << KeyPiece, BInt(0) >> })
        /\ cmd.accepted # NoMessage =>
              /\ cmd.log = ExtOrder
              /\ cmd.accepted.id = 20
              /\ StrAt(cmd.accepted.payload, 0) = 1
              /\ ObjectGet(ValueOf(cmd.header), KeyMsgType) = BInt(1)
        /\ cmd.pc \in { "verify", "verified" } => cmd.accepted # NoMessage

\* the data was accepted from a peer whose ut_metadata id is 2, after
\* messages that were skipped
C33_Witness ==
    /\ cmd.pc = "verify" /\ cmd.command = "magnet_info"
    /\ cmd.log = ExtOrder /\ cmd.peer_metadata_id = 2 /\ cmd.extra = MaxSessionMessages
    /\ StrAt(cmd.sent[2], 5) = 2

\* C34: when the total_size of the accepted data message exceeds 16 KiB,
\* every piece 0 .. ceil(total_size / 16384) - 1 has been requested and
\* the string that is hashed has total_size bytes.
C34_AllMetadataPieces ==
    (cmd.pc \in { "verify", "verified", "failed" } /\ cmd.accepted # NoMessage) =>
        LET total_size == ValueOf(ObjectGet(ValueOf(cmd.header), KeyTotalSize))
        IN  total_size > MetadataPieceSize =>
               /\ cmd.requested = 0 .. NumMetadataPieces(total_size) - 1
               /\ StrLen(cmd.metadata) = total_size

(***************************************************************************)
(* main (download): the loop that launches the workers in batches, for     *)
(* peer lists longer than max_workers.  A worker is a thread that marks    *)
(* pieces done while it runs and then exits.                               *)
(***************************************************************************)
MaxPeers == 6

\* batch = peers.size() - next_peer, without the cap
batch_size_uncapped(peers_size, n) == peers_size - n

\* batch = std::min(max_workers, peers.size() - next_peer)
batch_size(peers_size, n) == Min(max_workers, peers_size - n)

PoolUnchanged == UNCHANGED << downloadVars, componentVars, sha, sess >>

\* the tracker returned the peers and the queue is constructed
PoolStart ==
    /\ cmd.pc = "idle"
    /\ \E peers_size \in 1 .. MaxPeers, num_pieces \in 1 .. NumPieces :
          cmd' = [pc |-> "loop", peers_size |-> peers_size, remaining |-> num_pieces,
                  next_peer |-> 0, batch |-> 0, i |-> 0,
                  running |-> {}, handed |-> [p \in 0 .. peers_size - 1 |-> 0],
                  launched |-> 0]
    /\ PoolUnchanged

\* the test of the while loop and the size of the batch
PoolLoop ==
    /\ cmd.pc = "loop"
    /\ cmd' = IF cmd.remaining > 0 /\ cmd.next_peer < cmd.peers_size
              THEN [cmd EXCEPT !.pc = "spawn", !.i = 0,
                               !.batch = batch_size(cmd.peers_size, cmd.next_peer)]
              ELSE [cmd EXCEPT !.pc = "after"]
    /\ PoolUnchanged

\* threads.emplace_back for peers[next_peer + i]
PoolEmplace ==
    /\ cmd.pc = "spawn"
    /\ cmd' = IF cmd.i < cmd.batch
              THEN [cmd EXCEPT !.running = @ \cup { cmd.next_peer + cmd.i },
                               !.handed[cmd.next_peer + cmd.i] = @ + 1,
                               !.launched = @ + 1,
                               !.i = @ + 1]
              ELSE [cmd EXCEPT !.pc = "join"]
    /\ PoolUnchanged

\* a running worker marks a piece done
PoolWorkerPiece ==
    /\ cmd.pc \in { "spawn", "join" }
    /\ cmd.remaining > 0
    /\ \E p \in cmd.running : cmd' = [cmd EXCEPT !.remaining = @ - 1]
    /\ PoolUnchanged

\* a running worker returns or throws: its thread ends
PoolWorkerExit ==
    /\ cmd.pc \in { "spawn", "join" }
    /\ \E p \in cmd.running : cmd' = [cmd EXCEPT !.running = @ \ { p }]
    /\ PoolUnchanged

\* t.join() has returned for every thread of the batch
PoolJoin ==
    /\ cmd.pc = "join"
    /\ cmd.running = {}
    /\ cmd' = [cmd EXCEPT !.pc = "loop", !.next_peer = @ + cmd.batch]
    /\ PoolUnchanged

PoolNext ==
    \/ PoolStart
    \/ PoolLoop
    \/ PoolEmplace
    \/ PoolWorkerPiece
    \/ PoolWorkerExit
    \/ PoolJoin

PoolSpec == Init /\ [][PoolNext]_vars

\* C35: at most max_workers workers run at any moment, at most |peers|
\* workers are launched in the whole run, and no entry of the peer list is
\* handed to more than one worker.
C35_WorkerPool ==
    cmd.pc # "idle" =>
        /\ Cardinality(cmd.running) <= 4
        /\ cmd.launched <= cmd.peers_size
        /\ \A p \in 0 .. cmd.peers_size - 1 : cmd.handed[p] <= 1
        /\ cmd.running \subseteq 0 .. cmd.peers_size - 1

\* six peers: four workers of the first batch have ended and the two of
\* the second batch are running
C35_Witness ==
    /\ cmd.pc = "join" /\ cmd.peers_size = 6 /\ cmd.next_peer = 4
    /\ cmd.running = { 4, 5 } /\ cmd.launched = 6

\* four workers of a list of more than four peers run at once
C35_WitnessFull ==
    /\ cmd.pc = "join" /\ cmd.peers_size > 4 /\ Cardinality(cmd.running) = 4

(***************************************************************************)
(* download_worker and tcp_connect: the life of the socket of one worker.  *)
(* fd is the descriptor created by socket(): "none", "open" or "closed";   *)
(* sock is the local variable of download_worker.                          *)
(***************************************************************************)
\* closesocket on the descriptor
closesocket(s) == [s EXCEPT !.fd = "closed", !.fd_closes = @ + 1]

\* a send or a recv on the descriptor
UseSocket(s) == [s EXCEPT !.after_close = @ \/ s.fd # "open"]

\* a handler that never closes
catch_closes_never(sock_) == FALSE

\* if (sock != INVALID_SOCKET) of the catch block
catch_closes(sock_) == sock_ # INVALID_SOCKET

\* catch (...): release the piece, close the socket if it was opened, rethrow
SocketCatch(s, e) ==
    LET t == [s EXCEPT !.pc = "thrown", !.err = e,
                       !.queue = IF s.current_piece >= 0
                                 THEN mark_piece_retry(@, s.current_piece) ELSE @]
    IN  IF catch_closes(s.sock)
        THEN [closesocket(t) EXCEPT !.worker_closes = @ + 1]
        ELSE t

\* closesocket(sock); sock = INVALID_SOCKET at the end of the try block
SocketReturn(s) ==
    [closesocket(s) EXCEPT !.worker_closes = @ + 1, !.sock = INVALID_SOCKET,
                           !.pc = "returned"]

SockUnchanged == UNCHANGED << downloadVars, componentVars, sha, cmd >>

\* SOCKET sock = INVALID_SOCKET; int current_piece = -1; out_size is the
\* size of *out_buf (main passes a buffer of total_length bytes)
SockStart ==
    /\ sess.pc = "idle"
    /\ \E out_size \in { TotalLength - 1, TotalLength } :
          sess' = [pc |-> "connect", sock |-> INVALID_SOCKET, fd |-> "none",
                   fd_closes |-> 0, worker_closes |-> 0, connected |-> FALSE,
                   after_close |-> FALSE, current_piece |-> -1,
                   queue |-> PieceWorkQueue(NumPieces), bitfield |-> << >>,
                   out_size |-> out_size, other_piece |-> -1, err |-> NoError]
    /\ SockUnchanged

\* sock = tcp_connect(peer_host, peer_port)
SockConnect ==
    /\ sess.pc = "connect"
    /\ \E r \in { "ok", "Failed to resolve host", "Failed to create socket",
                  "Failed to connect to peer" } :
          sess' = CASE r = "ok" ->
                         [sess EXCEPT !.fd = "open", !.sock = 1, !.connected = TRUE,
                                      !.pc = "handshake"]
                    [] r = "Failed to connect to peer" ->
                         SocketCatch(closesocket([sess EXCEPT !.fd = "open"]), r)
                    [] OTHER -> SocketCatch(sess, r)
    /\ SockUnchanged

SockAfter(pc) ==
    CASE pc = "handshake"  -> "bitfield"
      [] pc = "bitfield"   -> "interested"
      [] pc = "interested" -> "unchoke"
      [] pc = "unchoke"    -> "loop"

\* perform_handshake, recv_bitfield_payload, send_peer_message(sock, 2, "")
\* and wait_for_unchoke: each returns or throws
SockSession ==
    /\ sess.pc \in { "handshake", "bitfield", "interested", "unchoke" }
    /\ \E e \in ErrorsAt(sess.pc) \cup { NoError }, bf \in PeerBitfields :
          sess' = IF e = NoError
                  THEN [UseSocket(sess) EXCEPT
                           !.pc = SockAfter(sess.pc),
                           !.bitfield = IF sess.pc = "bitfield" THEN bf ELSE @]
                  ELSE SocketCatch(UseSocket(sess), e)
    /\ SockUnchanged

\* the test of the while loop, acquire_next_piece and the piece size
SockLoop ==
    /\ sess.pc = "loop"
    /\ sess' = IF ~(sess.queue.remaining > 0) THEN SocketReturn(sess)
               ELSE LET a == acquire_next_piece(sess.queue, sess.bitfield, NumPieces)
                        s == [sess EXCEPT !.queue = a.q, !.current_piece = a.ret]
                    IN  IF a.ret < 0 THEN SocketReturn(s)
                        ELSE IF piece_size(a.ret) < 0
                        THEN SocketCatch(s, "Invalid piece size")
                        ELSE [s EXCEPT !.pc = "fetch"]
    /\ SockUnchanged

\* download_piece_from_peer and the comparison of the digests
SockFetch ==
    /\ sess.pc = "fetch"
    /\ \E r \in ErrorsAt("fetch") \cup { "verified", "mismatch" } :
          sess' = CASE r = "verified" -> [UseSocket(sess) EXCEPT !.pc = "write"]
                    [] r = "mismatch" ->
                         [UseSocket(sess) EXCEPT
                             !.queue = mark_piece_retry(@, sess.current_piece),
                             !.current_piece = -1, !.pc = "loop"]
                    [] OTHER -> SocketCatch(UseSocket(sess), r)
    /\ SockUnchanged

\* the bounds test, the memcpy and mark_piece_done
SockWrite ==
    /\ sess.pc = "write"
    /\ LET i == sess.current_piece
       IN  sess' = IF piece_offset(i) + piece_size(i) > sess.out_size
                   THEN SocketCatch(sess, "Output buffer overflow")
                   ELSE [sess EXCEPT !.queue = mark_piece_done(@, i),
                                     !.current_piece = -1, !.pc = "loop"]
    /\ SockUnchanged

\* another worker acquires a piece with the bitfield of its own peer
SockOtherAcquire ==
    /\ sess.pc \notin { "idle", "returned", "thrown" }
    /\ sess.other_piece < 0
    /\ LET a == acquire_next_piece(sess.queue, << >>, NumPieces)
       IN  /\ a.ret >= 0
           /\ sess' = [sess EXCEPT !.queue = a.q, !.other_piece = a.ret]
    /\ SockUnchanged

\* the other worker has downloaded its piece
SockOtherDone ==
    /\ sess.pc \notin { "idle", "returned", "thrown" }
    /\ sess.other_piece >= 0
    /\ sess' = [sess EXCEPT !.queue = mark_piece_done(@, sess.other_piece),
                            !.other_piece = -1]
    /\ SockUnchanged

SocketNext ==
    \/ SockStart
    \/ SockConnect
    \/ SockSession
    \/ SockLoop
    \/ SockFetch
    \/ SockWrite
    \/ SockOtherAcquire
    \/ SockOtherDone

SocketSpec == Init /\ [][SocketNext]_vars

\* C36: the socket a worker opened is closed exactly once before the
\* worker exits, on the normal path and on every error path; a worker whose
\* connect failed closes nothing itself; no send or receive happens on a
\* closed socket.
C36_SocketClosedOnce ==
    sess.pc # "idle" =>
        /\ sess.fd_closes <= 1
        /\ ~sess.after_close
        /\ sess.pc \notin { "returned", "thrown" } =>
              /\ sess.worker_closes = 0
              /\ sess.connected => sess.fd = "open"
        /\ sess.pc \in { "returned", "thrown" } =>
              /\ sess.fd # "open"
              /\ sess.fd = "closed" => sess.fd_closes = 1
              /\ sess.worker_closes = IF sess.connected THEN 1 ELSE 0

\* a worker that wrote a piece and then lost its peer has closed its socket
C36_Witness ==
    /\ sess.pc = "thrown" /\ sess.err = "Peer closed connection"
    /\ sess.queue.remaining = NumPieces - 1 /\ sess.fd = "closed" /\ sess.fd_closes = 1
    /\ sess.worker_closes = 1

\* the connect failed: the handler closed nothing
C36_WitnessConnect ==
    /\ sess.pc = "thrown" /\ sess.err = "Failed to connect to peer"
    /\ sess.worker_closes = 0 /\ sess.sock = INVALID_SOCKET

\* the worker returned normally
C36_WitnessReturn ==
    /\ sess.pc = "returned" /\ sess.worker_closes = 1 /\ sess.sock = INVALID_SOCKET

(***************************************************************************)
(* The download with one good peer: the peer of worker GoodPeer owns every *)
(* piece and answers every request correctly and promptly; the other peers *)
(* are free to fail, to disconnect or to serve corrupt data.  All threads  *)
(* are scheduled fairly.                                                   *)
(***************************************************************************)
\* the first peer of the list
GoodPeer == CHOOSE w \in Workers : \A v \in Workers : w <= v

\* the bitfield has the bit of every piece
OwnsEveryPiece(bf) == \A i \in Pieces : Advertises(bf, i)

\* recv_bitfield_payload(sock) with the good peer
GoodRecvBitfield(w) == RecvBitfield(w) /\ OwnsEveryPiece(bitfield'[w])

GoodWorkerStep(w) ==
    \/ Connect(w)
    \/ Handshake(w)
    \/ GoodRecvBitfield(w)
    \/ SendInterested(w)
    \/ WaitUnchoke(w)
    \/ LoopContinue(w)
    \/ LoopFinish(w)
    \/ AcquirePiece(w)
    \/ AcquireNone(w)
    \/ DownloadVerified(w)
    \/ WritePiece(w)
    \/ MarkDone(w)

GoodPeerNext ==
    \/ MainStep
    \/ GoodWorkerStep(GoodPeer)
    \/ \E w \in Workers \ { GoodPeer } : WorkerStep(w)

GoodPeerSpec ==
    /\ Init
    /\ [][GoodPeerNext]_vars
    /\ WF_vars(MainStep)
    /\ WF_vars(GoodWorkerStep(GoodPeer))
    /\ \A w \in Workers \ { GoodPeer } : WF_vars(WorkerStep(w))

\* C37: with at most 4 peers of which one owns every piece and answers
\* every request correctly and promptly, the download eventually completes
\* with remaining = 0, whatever the other peers do.
C37_GoodPeerCompletes == <>(queue.remaining = 0)

\* the good worker has returned without an error, every piece it was
\* handed is done, and the download has failed with a piece left that
\* another worker released
C37_LeftBehind ==
    /\ mpc = "failed" /\ queue.remaining > 0
    /\ wpc[GoodPeer] = "exited" /\ closes[GoodPeer] = 1
    /\ \A w \in Workers : wpc[w] = "exited" /\ (w # GoodPeer => Len(bitfield[w]) > 0)
    /\ \E i \in Pieces : queue.state[i] = DONE
    /\ \E i \in Pieces : queue.state[i] = PENDING

\* C38: when decode_bencoded_value(input, pos) returns, the cursor has
\* advanced and lies inside the input (old_pos < pos <= |input|); a byte
\* string whose declared length exceeds the remaining input is not accepted.
C38_CursorInsideInput ==
    (benc.pc \in { "decoded", "decoded_back", "decoded_malformed" } /\ benc.res.ok) =>
        /\ 0 < benc.res.pos
        /\ benc.res.pos <= Len(benc.b)

\* C39: a session proceeds past the handshake, and sends anything
\* afterwards, only if bytes 28..47 of the response are the info_hash the
\* client sent.
C39_InfoHashChecked ==
    (hs.pc # "idle" /\ (hs.pc = "ok" \/ hs.later # << >>)) =>
        SubSeq(hs.response, 29, 48) = SubSeq(hs.out, 29, 48)

\* the cell piece_index addresses exists and is in progress
InProgressCell(q, piece_index) ==
    /\ piece_index \in DOMAIN q.state
    /\ q.state[piece_index] = IN_PROGRESS

\* the frame of complete and release called with index i on queue q
C40_Frame(q, i) ==
    LET done == mark_piece_done(q, i)
        retry == mark_piece_retry(q, i)
    IN  /\ ~InProgressCell(q, i) => (done = q /\ retry = q)
        /\ retry.remaining = q.remaining
        /\ DOMAIN done.state = DOMAIN q.state
        /\ DOMAIN retry.state = DOMAIN q.state
        /\ \A j \in DOMAIN q.state \ { i } :
              done.state[j] = q.state[j] /\ retry.state[j] = q.state[j]
        /\ InProgressCell(q, i) =>
              /\ done.state[i] = DONE /\ done.remaining = q.remaining - 1
              /\ retry.state[i] = PENDING

\* C40: mark_piece_done and mark_piece_retry change the queue only when
\* the addressed cell is in progress: with a negative or out-of-range
\* index, or on a pending or done cell, every cell and remaining stay as
\* they are; release never changes remaining, and complete changes no cell
\* other than the addressed one.
C40_CompleteReleaseFrame ==
    \A i \in QueueIndexes \cup { -2, QueuePieces + 1 } : C40_Frame(queue, i)

\* a queue with a pending, an in-progress and a done cell, on which the
\* calls with every index are compared
C40_Witness ==
    /\ \E i \in DOMAIN queue.state : queue.state[i] = PENDING
    /\ \E i \in DOMAIN queue.state : queue.state[i] = IN_PROGRESS
    /\ \E i \in DOMAIN queue.state : queue.state[i] = DONE
    /\ queue.remaining < QueueSize(queue)
    /\ \E i \in DOMAIN queue.state : mark_piece_done(queue, i) # queue
    /\ \E i \in DOMAIN queue.state : mark_piece_retry(queue, i) # queue

=============================================================================
